---- MODULE Spec2Model ----
(***************************************************************************)
(* A model of the rustpress plugin runtime: the plugin registry            *)
(* (core/src/plugin/registry.rs), the admin control surface                *)
(* (core/src/api/admin_api/plugin_controller.rs), the hook registry        *)
(* (core/src/plugin/hook_registry.rs), the host API broker                 *)
(* (core/src/plugin/host/*.rs) and the package processor                   *)
(* (core/src/rpk.rs).                                                      *)
(*                                                                         *)
(* The specifications share the variables:                                 *)
(*   Spec            the plugin lifecycle: store records, plugins map,     *)
(*                   hook index;                                           *)
(*   SpecUpgrade, SpecReview, SpecLoad, SpecStoreFault                     *)
(*                   the lifecycle over two versions, over stored records  *)
(*                   in any status, over missing packages, over a store    *)
(*                   whose queries may fail;                               *)
(*   SpecDispatch    one filter/action dispatch at a time over a registry  *)
(*                   built with register_plugin/unregister_plugin;         *)
(*   SpecTermination the dispatcher with invocations that never complete;  *)
(*   SpecConcurrent  a dispatch beside concurrent registry calls;          *)
(*   SpecLocks       the two reader/writer locks of the registry;          *)
(*   SpecInstallRace concurrent install_plugin calls;                      *)
(*   SpecHost        the host functions a plugin instance may call during  *)
(*                   one filter invocation;                                *)
(*   SpecArchive     archive reading and extraction;                       *)
(*   SpecLoadRace    overlapping load_plugin_from_rpk_data calls;          *)
(*   SpecValidate    hook validation.                                      *)
(***************************************************************************)
EXTENDS Integers, Sequences, FiniteSets, TLC

VARIABLES
    db,               \* plugins table: plugin_id -> record
    rpk_files,        \* install_dir: <<plugin_id, version>> -> manifest of the stored archive
    plugins,          \* PluginRegistry.plugins: <<plugin_id, version>> -> LoadedPlugin
    hook_to_plugins,  \* PluginRegistry.hook_to_plugins: hook name -> Seq of keys
    last,             \* the last operation and what it returned to its caller
    dsp,              \* the dispatch in progress (call_filter_hook / call_action_hook)
    host,             \* one PluginHostState, its collaborators and the running filter
    fs,               \* files written by the package processor and what it returned
    tasks             \* calls running concurrently: task -> its position and locals

vars == <<db, rpk_files, plugins, hook_to_plugins, last, dsp, host, fs, tasks>>

----------------------------------------------------------------------------
(* Bounds of the model                                                     *)

\* longest hook bucket the model lets register_plugin build
MaxBucket == 2

\* host functions one plugin invocation may call
MaxHostCalls == 2

\* entries of an uploaded archive
MaxEntries == 3

\* hooks a validated manifest declares
MaxHooks == 3

----------------------------------------------------------------------------
(* Finite maps                                                             *)

EmptyMap == << >>

MapPut(m, k, v) == [x \in (DOMAIN m) \cup {k} |-> IF x = k THEN v ELSE m[x]]

MapRemove(m, k) == [x \in (DOMAIN m) \ {k} |-> m[x]]

RECURSIVE SeqFilterOut(_, _)
\* Vec::retain(|e| e != k)
SeqFilterOut(s, k) ==
    IF s = << >> THEN << >>
    ELSE IF Head(s) = k THEN SeqFilterOut(Tail(s), k)
         ELSE <<Head(s)>> \o SeqFilterOut(Tail(s), k)

Range(s) == {s[i] : i \in DOMAIN s}

----------------------------------------------------------------------------
(* Hook registry: the host side truth                                      *)

NoPerm == "-"

\* HookRegistry::get_hook_definitions: hook name -> required_perm
HookDefinitions ==
    [h \in {"post_published_filter", "list_categories", "action_user_created",
            "action_user_login", "filter_authenticate", "action_system_startup",
            "action_system_shutdown"} |->
        CASE h = "post_published_filter" -> "post:write"
          [] h = "list_categories" -> "post:list_category"
          [] h = "action_user_created" -> "user:read"
          [] h = "action_user_login" -> "user:read"
          [] h = "filter_authenticate" -> "user:write"
          [] OTHER -> NoPerm]

\* HookRegistry::is_valid_hook
is_valid_hook(hook_name) == hook_name \in DOMAIN HookDefinitions

\* HookRegistry::get_hook_permission: NoPerm stands for None
get_hook_permission(hook_name) ==
    IF hook_name \in DOMAIN HookDefinitions THEN HookDefinitions[hook_name] ELSE NoPerm

----------------------------------------------------------------------------
(* Inputs of the lifecycle specification                                   *)

PluginIds == {"org.a", "org.b"}

Versions == {"1.0.0"}

Keys == PluginIds \X Versions

\* The archives the model installs: permissions.required and the hook list
\* of their manifests.  One needs nothing and registers a hook that requires
\* nothing; one requires the permission of the hook it registers; one
\* requires nothing and registers a hook that requires user:read beside one
\* that requires nothing.
ManifestShapes ==
    { [required |-> {}, hooks |-> <<"action_system_startup">>],
      [required |-> {"post:write"}, hooks |-> <<"post_published_filter">>],
      [required |-> {}, hooks |-> <<"action_user_created", "action_system_startup">>] }

\* what an operator may grant through update_plugin_permissions
GrantSets == { {}, {"post:write"}, {"post:write", "user:read"} }

Manifests ==
    { [id |-> id, version |-> v, required |-> s.required, hooks |-> s.hooks] :
        id \in PluginIds, v \in Versions, s \in ManifestShapes }

Some(x) == [some |-> TRUE, val |-> x]

None == [some |-> FALSE, val |-> {}]

NoOp ==
    [op |-> "none", id |-> "", version |-> "", approved |-> {}, ok |-> TRUE,
     enabled_req |-> "none",
     new_permissions |-> {}, requires_review |-> FALSE]

----------------------------------------------------------------------------
(* Plugin registry: pure parts of the operations.  A registry value is     *)
(* [plugins, hook_to_plugins]; a world value adds the store:               *)
(* [db, rpk_files, plugins, hook_to_plugins].                              *)

Key(p) == <<p.plugin_id, p.version>>

\* load_plugin_from_rpk_data: the LoadedPlugin built from the archive's manifest
\* and the stored grants of the record
load_plugin_from_rpk_data(manifest, plugin_model) ==
    [plugin_id |-> manifest.id,
     version |-> manifest.version,
     registered_hooks |-> manifest.hooks,
     granted_permissions |->
        IF plugin_model.granted_permissions.some
        THEN plugin_model.granted_permissions.val
        ELSE manifest.required]

RECURSIVE PushHooks(_, _, _)
\* register_plugin, the hook loop: push the key on the bucket of every hook
PushHooks(h2p, hooks, key) ==
    IF hooks = << >> THEN h2p
    ELSE LET h == Head(hooks)
             bucket == IF h \in DOMAIN h2p THEN h2p[h] ELSE << >>
         IN PushHooks(MapPut(h2p, h, Append(bucket, key)), Tail(hooks), key)

\* register_plugin
register_plugin(reg, plugin) ==
    [plugins |-> MapPut(reg.plugins, Key(plugin), plugin),
     hook_to_plugins |->
        PushHooks(reg.hook_to_plugins, plugin.registered_hooks, Key(plugin))]

RECURSIVE RetainHooks(_, _, _)
\* unregister_plugin_with_version, the hook loop: retain the other keys and
\* drop a bucket left empty
RetainHooks(h2p, hooks, key) ==
    IF hooks = << >> THEN h2p
    ELSE LET h == Head(hooks)
             kept == SeqFilterOut(h2p[h], key)
         IN IF h \notin DOMAIN h2p THEN RetainHooks(h2p, Tail(hooks), key)
            ELSE IF kept = << >> THEN RetainHooks(MapRemove(h2p, h), Tail(hooks), key)
            ELSE RetainHooks(MapPut(h2p, h, kept), Tail(hooks), key)

\* unregister_plugin_with_version: [ok, plugins, hook_to_plugins]
unregister_plugin_with_version(reg, plugin_id, version) ==
    LET key == <<plugin_id, version>> IN
    IF key \in DOMAIN reg.plugins
    THEN [ok |-> TRUE,
          plugins |-> MapRemove(reg.plugins, key),
          hook_to_plugins |->
             RetainHooks(reg.hook_to_plugins, reg.plugins[key].registered_hooks, key)]
    ELSE [ok |-> FALSE, plugins |-> reg.plugins,
          hook_to_plugins |-> reg.hook_to_plugins]

RECURSIVE UnregisterAll(_, _)
\* unregister_plugin, the loop over the collected keys
UnregisterAll(reg, keys) ==
    IF keys = {} THEN reg
    ELSE LET k == CHOOSE x \in keys : TRUE
             r == unregister_plugin_with_version(reg, k[1], k[2])
         IN UnregisterAll([plugins |-> r.plugins, hook_to_plugins |-> r.hook_to_plugins],
                          keys \ {k})

\* unregister_plugin: every loaded version of plugin_id
unregister_plugin(reg, plugin_id) ==
    UnregisterAll(reg, {k \in DOMAIN reg.plugins : k[1] = plugin_id})

\* get_plugins_for_hook: the LoadedPlugins of the bucket, keys without a
\* LoadedPlugin skipped (filter_map)
RECURSIVE LookupAll(_, _)
LookupAll(keys, pls) ==
    IF keys = << >> THEN << >>
    ELSE IF Head(keys) \in DOMAIN pls
         THEN <<pls[Head(keys)]>> \o LookupAll(Tail(keys), pls)
         ELSE LookupAll(Tail(keys), pls)

get_plugins_for_hook(reg, hook_name) ==
    IF hook_name \in DOMAIN reg.hook_to_plugins
    THEN LookupAll(reg.hook_to_plugins[hook_name], reg.plugins)
    ELSE << >>

\* load_plugin_from_database: [ok, plugins, hook_to_plugins]
load_plugin_from_database(w, plugin_id, version) ==
    IF plugin_id \notin DOMAIN w.db \/ w.db[plugin_id].version # version
    THEN [ok |-> FALSE, plugins |-> w.plugins, hook_to_plugins |-> w.hook_to_plugins]
    ELSE IF <<plugin_id, version>> \notin DOMAIN w.rpk_files
    THEN [ok |-> FALSE, plugins |-> w.plugins, hook_to_plugins |-> w.hook_to_plugins]
    ELSE LET loaded == load_plugin_from_rpk_data(w.rpk_files[<<plugin_id, version>>],
                                                 w.db[plugin_id])
             r == register_plugin(w, loaded)
         IN [ok |-> TRUE, plugins |-> r.plugins, hook_to_plugins |-> r.hook_to_plugins]

\* disable_plugin clearing the enabled column and leaving the status column
disable_plugin_keeps_status(w, plugin_id, version) ==
    IF plugin_id \notin DOMAIN w.db \/ w.db[plugin_id].version # version
    THEN [ok |-> FALSE, db |-> w.db, plugins |-> w.plugins,
          hook_to_plugins |-> w.hook_to_plugins]
    ELSE LET r == unregister_plugin_with_version(w, plugin_id, version)
         IN [ok |-> TRUE,
             db |-> [w.db EXCEPT ![plugin_id].enabled = FALSE],
             plugins |-> r.plugins,
             hook_to_plugins |-> r.hook_to_plugins]

\* disable_plugin: [ok, db, plugins, hook_to_plugins]
disable_plugin(w, plugin_id, version) ==
    IF plugin_id \notin DOMAIN w.db \/ w.db[plugin_id].version # version
    THEN [ok |-> FALSE, db |-> w.db, plugins |-> w.plugins,
          hook_to_plugins |-> w.hook_to_plugins]
    ELSE LET r == unregister_plugin_with_version(w, plugin_id, version)
         IN [ok |-> TRUE,
             db |-> [w.db EXCEPT ![plugin_id].enabled = FALSE,
                                 ![plugin_id].status = "disabled"],
             plugins |-> r.plugins,
             hook_to_plugins |-> r.hook_to_plugins]

RECURSIVE LoadEach(_, _)
\* load_enabled_plugins giving up at the first plugin that fails to load
LoadEachStopsAtFailure(w, order) ==
    IF order = << >> THEN w
    ELSE LET id == Head(order)
             version == w.db[id].version
             l == load_plugin_from_database(w, id, version)
             d == disable_plugin(w, id, version)
         IN IF l.ok
            THEN LoadEach([w EXCEPT !.plugins = l.plugins,
                                    !.hook_to_plugins = l.hook_to_plugins],
                          Tail(order))
            ELSE [w EXCEPT !.db = d.db, !.plugins = d.plugins,
                           !.hook_to_plugins = d.hook_to_plugins]

\* load_enabled_plugins, the loop over the rows found: load each, disable the
\* ones that fail to load, go on
LoadEach(w, order) ==
    IF order = << >> THEN w
    ELSE LET id == Head(order)
             version == w.db[id].version
             l == load_plugin_from_database(w, id, version)
             d == disable_plugin(w, id, version)
         IN IF l.ok
            THEN LoadEach([w EXCEPT !.plugins = l.plugins,
                                    !.hook_to_plugins = l.hook_to_plugins],
                          Tail(order))
            ELSE LoadEach([w EXCEPT !.db = d.db, !.plugins = d.plugins,
                                    !.hook_to_plugins = d.hook_to_plugins],
                          Tail(order))

\* analyze_enable_permissions: the keys of the map it returns, the manifest's
\* permissions.required
analyze_enable_permissions(record) == record.manifest.required

World == [db |-> db, rpk_files |-> rpk_files, plugins |-> plugins,
          hook_to_plugins |-> hook_to_plugins]

BucketsWithin(h2p) == \A h \in DOMAIN h2p : Len(h2p[h]) <= MaxBucket

Orders(S) == {o \in [1..Cardinality(S) -> S] : Range(o) = S}

----------------------------------------------------------------------------
(* Lifecycle operations (specification Spec).  Records carry the columns   *)
(* the operations read or write; description, config and the timestamps    *)
(* are left out.                                                           *)

Result(op, id, ok) ==
    [op |-> op, id |-> id, version |-> "", approved |-> {}, ok |-> ok,
     enabled_req |-> "none",
     new_permissions |-> {}, requires_review |-> FALSE]

\* install_plugin inserting the record with the status column's default,
\* "enabled", instead of "disabled"
InstallPluginDefaultStatus(m) ==
    /\ IF m.id \in DOMAIN db
       THEN /\ last' = [Result("install_plugin", m.id, FALSE) EXCEPT !.version = m.version]
            /\ UNCHANGED <<db, rpk_files>>
       ELSE /\ rpk_files' = MapPut(rpk_files, <<m.id, m.version>>, m)
            /\ db' = MapPut(db, m.id,
                        [plugin_id |-> m.id, name |-> m.id, version |-> m.version,
                         enabled |-> FALSE, status |-> "enabled",
                         granted_permissions |-> Some({}), manifest |-> m])
            /\ last' = [Result("install_plugin", m.id, TRUE) EXCEPT !.version = m.version]
    /\ UNCHANGED <<plugins, hook_to_plugins, dsp, host, fs, tasks>>

\* install_plugin saving the package before it looks for an existing record
InstallPluginSavesFirst(m) ==
    /\ rpk_files' = MapPut(rpk_files, <<m.id, m.version>>, m)
    /\ IF m.id \in DOMAIN db
       THEN /\ last' = [Result("install_plugin", m.id, FALSE) EXCEPT !.version = m.version]
            /\ UNCHANGED db
       ELSE /\ db' = MapPut(db, m.id,
                        [plugin_id |-> m.id, name |-> m.id, version |-> m.version,
                         enabled |-> FALSE, status |-> "disabled",
                         granted_permissions |-> Some({}), manifest |-> m])
            /\ last' = [Result("install_plugin", m.id, TRUE) EXCEPT !.version = m.version]
    /\ UNCHANGED <<plugins, hook_to_plugins, dsp, host, fs, tasks>>

\* PluginRegistry::install_plugin on a well-formed archive with manifest m.
\* The granted_permissions column is not set by the insert and takes the
\* column default, the empty JSON list.
InstallPlugin(m) ==
    /\ IF m.id \in DOMAIN db
       THEN /\ last' = [Result("install_plugin", m.id, FALSE) EXCEPT !.version = m.version]
            /\ UNCHANGED <<db, rpk_files>>
       ELSE /\ rpk_files' = MapPut(rpk_files, <<m.id, m.version>>, m)
            /\ db' = MapPut(db, m.id,
                        [plugin_id |-> m.id, name |-> m.id, version |-> m.version,
                         enabled |-> FALSE, status |-> "disabled",
                         granted_permissions |-> Some({}), manifest |-> m])
            /\ last' = [Result("install_plugin", m.id, TRUE) EXCEPT !.version = m.version]
    /\ UNCHANGED <<plugins, hook_to_plugins, dsp, host, fs, tasks>>

\* admin update_plugin (PUT /api/admin/plugins/{id}); enabled_req is
\* payload.enabled: "none", "true" or "false"
UpdatePlugin(id, enabled_req) ==
    /\ IF id \notin DOMAIN db
       THEN /\ last' = Result("update_plugin", id, FALSE)
            /\ UNCHANGED db
       ELSE LET new_permissions ==
                    IF enabled_req = "true" /\ ~db[id].enabled
                    THEN analyze_enable_permissions(db[id])
                    ELSE {}
            IN /\ db' = IF enabled_req = "none" THEN db
                        ELSE [db EXCEPT ![id].enabled = (enabled_req = "true"),
                                        ![id].status = IF enabled_req = "true"
                                                       THEN "enabled" ELSE "disabled"]
               /\ last' = [op |-> "update_plugin", id |-> id, version |-> "",
                           approved |-> {}, ok |-> TRUE,
                           enabled_req |-> enabled_req,
                           new_permissions |-> new_permissions,
                           requires_review |-> (new_permissions # {})]
    /\ UNCHANGED <<rpk_files, plugins, hook_to_plugins, dsp, host, fs, tasks>>

\* update_plugin_permissions that also hands the new grants to the loaded
\* plugin
UpdatePluginPermissionsRefreshesLoaded(id, granted) ==
    /\ IF id \notin DOMAIN db
       THEN /\ last' = Result("update_plugin_permissions", id, FALSE)
            /\ UNCHANGED <<db, plugins>>
       ELSE /\ db' = [db EXCEPT ![id].granted_permissions = Some(granted)]
            /\ plugins' = [k \in DOMAIN plugins |->
                              IF k[1] = id
                              THEN [plugins[k] EXCEPT !.granted_permissions = granted]
                              ELSE plugins[k]]
            /\ last' = Result("update_plugin_permissions", id, TRUE)
    /\ UNCHANGED <<rpk_files, hook_to_plugins, dsp, host, fs, tasks>>

\* PluginRegistry::update_plugin_permissions; granted is the set of
\* permissions the request maps to true
UpdatePluginPermissions(id, granted) ==
    /\ IF id \notin DOMAIN db
       THEN /\ last' = Result("update_plugin_permissions", id, FALSE)
            /\ UNCHANGED db
       ELSE /\ db' = [db EXCEPT ![id].granted_permissions = Some(granted)]
            /\ last' = Result("update_plugin_permissions", id, TRUE)
    /\ UNCHANGED <<rpk_files, plugins, hook_to_plugins, dsp, host, fs, tasks>>

\* PluginRegistry::load_plugin_from_database
LoadPluginFromDatabase(id, version) ==
    LET r == load_plugin_from_database(World, id, version) IN
    /\ BucketsWithin(r.hook_to_plugins)
    /\ plugins' = r.plugins
    /\ hook_to_plugins' = r.hook_to_plugins
    /\ last' = Result("load_plugin_from_database", id, r.ok)
    /\ UNCHANGED <<db, rpk_files, dsp, host, fs, tasks>>

\* PluginRegistry::load_enabled_plugins; the query has no ORDER BY, so the
\* rows come in any order
LoadEnabledPlugins ==
    \E order \in Orders({id \in DOMAIN db :
                            db[id].enabled /\ db[id].status = "enabled"}) :
        LET w == LoadEach(World, order) IN
        /\ BucketsWithin(w.hook_to_plugins)
        /\ db' = w.db
        /\ plugins' = w.plugins
        /\ hook_to_plugins' = w.hook_to_plugins
        /\ last' = Result("load_enabled_plugins", "", TRUE)
        /\ UNCHANGED <<rpk_files, dsp, host, fs, tasks>>

\* PluginRegistry::disable_plugin
DisablePlugin(id, version) ==
    LET r == disable_plugin(World, id, version) IN
    /\ db' = r.db
    /\ plugins' = r.plugins
    /\ hook_to_plugins' = r.hook_to_plugins
    /\ last' = Result("disable_plugin", id, r.ok)
    /\ UNCHANGED <<rpk_files, dsp, host, fs, tasks>>

\* PluginRegistry::uninstall_plugin: unregister every loaded version, then
\* delete the rows named plugin_id
UninstallPlugin(id) ==
    LET r == unregister_plugin(World, id) IN
    /\ plugins' = r.plugins
    /\ hook_to_plugins' = r.hook_to_plugins
    /\ db' = MapRemove(db, id)
    /\ last' = Result("uninstall_plugin", id, TRUE)
    /\ UNCHANGED <<rpk_files, dsp, host, fs, tasks>>

\* what a dispatch returns: Ok(data) or an error and what its message names
NoResult == [ok |-> TRUE, data |-> << >>, plugin |-> "", hook |-> "", cause |-> ""]

DspIdle ==
    [pc |-> "idle", kind |-> "none", hook |-> "", input |-> << >>, snapshot |-> << >>,
     i |-> 1, modified_data |-> << >>, instantiated |-> << >>, invoked |-> << >>,
     result |-> NoResult]

HostIdle == [pc |-> "none"]

NoWrite == [op |-> "none", id |-> "", ok |-> TRUE, unsafe |-> FALSE,
            written |-> {}, dir |-> << >>]

\* files is the set of paths that exist, archives the packages of the
\* install directory, wr what the last archive operation wrote
FsEmpty == [files |-> {}, archives |-> EmptyMap, wr |-> NoWrite]

\* no concurrent call is running
NoTasks == EmptyMap

Init ==
    /\ db = EmptyMap
    /\ rpk_files = EmptyMap
    /\ plugins = EmptyMap
    /\ hook_to_plugins = EmptyMap
    /\ last = NoOp
    /\ dsp = DspIdle
    /\ host = HostIdle
    /\ fs = FsEmpty
    /\ tasks = NoTasks

Next ==
    \/ \E m \in Manifests : InstallPlugin(m)
    \/ \E id \in PluginIds, e \in {"none", "true", "false"} : UpdatePlugin(id, e)
    \/ \E id \in PluginIds, g \in GrantSets : UpdatePluginPermissions(id, g)
    \/ \E id \in PluginIds, v \in Versions : LoadPluginFromDatabase(id, v)
    \/ LoadEnabledPlugins
    \/ \E id \in PluginIds, v \in Versions : DisablePlugin(id, v)
    \/ \E id \in PluginIds : UninstallPlugin(id)

Spec == Init /\ [][Next]_vars

\* admin review_plugin_permissions (POST
\* /api/admin/plugins/{id}/review-permissions); approved is the set of
\* permissions payload.approved_permissions maps to true
ReviewPluginPermissions(id, approved) ==
    /\ IF id \notin DOMAIN db \/ db[id].status # "pending_review"
       THEN /\ last' = [Result("review_plugin_permissions", id, FALSE)
                            EXCEPT !.approved = approved]
            /\ UNCHANGED db
       ELSE /\ db' = [db EXCEPT ![id].granted_permissions = Some(approved),
                                ![id].status = "enabled",
                                ![id].enabled = TRUE]
            /\ last' = [Result("review_plugin_permissions", id, TRUE)
                            EXCEPT !.approved = approved]
    /\ UNCHANGED <<rpk_files, plugins, hook_to_plugins, dsp, host, fs, tasks>>

\* Specification SpecReview: the registry is built over a store that already
\* holds records, in any of the statuses the status column documents
RecordStatuses == {"enabled", "disabled", "pending_review"}

ReviewManifest(id) ==
    [id |-> id, version |-> "1.0.0", required |-> {"post:write"},
     hooks |-> <<"post_published_filter">>]

StoredRecords ==
    { [plugin_id |-> id, name |-> id, version |-> "1.0.0",
       enabled |-> (st = "enabled"), status |-> st,
       granted_permissions |-> Some(g), manifest |-> ReviewManifest(id)] :
        id \in PluginIds, st \in RecordStatuses, g \in { {}, {"user:read"} } }

InitReview ==
    /\ \E S \in SUBSET PluginIds :
          /\ db \in {f \in [S -> StoredRecords] : \A id \in S : f[id].plugin_id = id}
          /\ rpk_files = [k \in {<<id, "1.0.0">> : id \in S} |-> ReviewManifest(k[1])]
    /\ plugins = EmptyMap
    /\ hook_to_plugins = EmptyMap
    /\ last = NoOp
    /\ dsp = DspIdle
    /\ host = HostIdle
    /\ fs = FsEmpty
    /\ tasks = NoTasks

NextReview ==
    \/ \E id \in PluginIds, g \in GrantSets : ReviewPluginPermissions(id, g)
    \/ \E id \in PluginIds : InstallPlugin(ReviewManifest(id))
    \/ \E id \in PluginIds, e \in {"true", "false"} : UpdatePlugin(id, e)
    \/ \E id \in PluginIds, g \in GrantSets : UpdatePluginPermissions(id, g)
    \/ LoadEnabledPlugins
    \/ \E id \in PluginIds, v \in Versions : DisablePlugin(id, v)

SpecReview == InitReview /\ [][NextReview]_vars

\* Specification SpecLoad: the registry is built over a store of three
\* records, enabled or not, some of whose packages are missing from the
\* install directory, so that loading them fails
LoadIds == {"org.a", "org.b", "org.c"}

LoadManifest(id) ==
    [id |-> id, version |-> "1.0.0", required |-> {},
     hooks |-> IF id = "org.b" THEN <<"action_system_shutdown">>
               ELSE <<"action_system_startup">>]

LoadRecord(id, enabled) ==
    [plugin_id |-> id, name |-> id, version |-> "1.0.0", enabled |-> enabled,
     status |-> IF enabled THEN "enabled" ELSE "disabled",
     granted_permissions |-> Some({}), manifest |-> LoadManifest(id)]

InitLoad ==
    /\ \E on \in SUBSET LoadIds : db = [id \in LoadIds |-> LoadRecord(id, id \in on)]
    /\ \E S \in SUBSET LoadIds :
          rpk_files = [k \in {<<id, "1.0.0">> : id \in S} |-> LoadManifest(k[1])]
    /\ plugins = EmptyMap
    /\ hook_to_plugins = EmptyMap
    /\ last = NoOp
    /\ dsp = DspIdle
    /\ host = HostIdle
    /\ fs = FsEmpty
    /\ tasks = NoTasks

NextLoad ==
    \/ LoadEnabledPlugins
    \/ \E id \in LoadIds, v \in Versions : LoadPluginFromDatabase(id, v)
    \/ \E id \in LoadIds, e \in {"true", "false"} : UpdatePlugin(id, e)
    \/ \E id \in LoadIds, v \in Versions : DisablePlugin(id, v)

SpecLoad == InitLoad /\ [][NextLoad]_vars

\* Specification SpecUpgrade: the lifecycle over packages of two versions
UpgradeVersions == {"1.0.0", "1.1.0"}

UpgradeManifests ==
    { [id |-> id, version |-> v, required |-> {},
       hooks |-> <<"action_system_startup">>] :
        id \in PluginIds, v \in UpgradeVersions }

NextUpgrade ==
    \/ \E m \in UpgradeManifests : InstallPlugin(m)
    \/ \E id \in PluginIds, e \in {"true", "false"} : UpdatePlugin(id, e)
    \/ \E id \in PluginIds, v \in UpgradeVersions : LoadPluginFromDatabase(id, v)
    \/ \E id \in PluginIds, v \in UpgradeVersions : DisablePlugin(id, v)
    \/ \E id \in PluginIds : UninstallPlugin(id)

SpecUpgrade == Init /\ [][NextUpgrade]_vars

\* Specification SpecStoreFault: the lifecycle over a store whose queries
\* may fail (the `.await?` on a sea_orm call returns its DbErr to the caller)
StoreError(op, id) ==
    [op |-> op, id |-> id, version |-> "", approved |-> {}, ok |-> FALSE,
     enabled_req |-> "none", new_permissions |-> {}, requires_review |-> FALSE,
     error |-> "store"]

\* disable_plugin when find().one() or update() returns an error: the
\* function returns before unload_plugin
DisablePluginStoreFails(id, version) ==
    /\ last' = StoreError("disable_plugin", id)
    /\ UNCHANGED <<db, rpk_files, plugins, hook_to_plugins, dsp, host, fs, tasks>>

\* uninstall_plugin when delete_many().exec() returns an error: the
\* registry has been cleared of the plugin by then
UninstallPluginStoreFails(id) ==
    LET r == unregister_plugin(World, id) IN
    /\ plugins' = r.plugins
    /\ hook_to_plugins' = r.hook_to_plugins
    /\ last' = StoreError("uninstall_plugin", id)
    /\ UNCHANGED <<db, rpk_files, dsp, host, fs, tasks>>

\* install_plugin when the existence query ("find") or the insert
\* ("insert") returns an error; the insert comes after install_rpk
InstallPluginStoreFails(m, at) ==
    /\ at = "insert" => m.id \notin DOMAIN db
    /\ rpk_files' = IF at = "insert"
                    THEN MapPut(rpk_files, <<m.id, m.version>>, m)
                    ELSE rpk_files
    /\ last' = [StoreError("install_plugin", m.id) EXCEPT !.version = m.version]
    /\ UNCHANGED <<db, plugins, hook_to_plugins, dsp, host, fs, tasks>>

NextStoreFault ==
    \/ \E id \in PluginIds : InstallPlugin(ReviewManifest(id))
    \/ \E id \in PluginIds, e \in {"true", "false"} : UpdatePlugin(id, e)
    \/ \E id \in PluginIds, v \in Versions : LoadPluginFromDatabase(id, v)
    \/ \E id \in PluginIds, v \in Versions : DisablePlugin(id, v)
    \/ \E id \in PluginIds : UninstallPlugin(id)
    \/ \E id \in PluginIds, v \in Versions : DisablePluginStoreFails(id, v)
    \/ \E id \in PluginIds : UninstallPluginStoreFails(id)
    \/ \E id \in PluginIds, at \in {"find", "insert"} :
          InstallPluginStoreFails(ReviewManifest(id), at)

SpecStoreFault == Init /\ [][NextStoreFault]_vars

----------------------------------------------------------------------------
(* Dispatcher (specification SpecDispatch): call_filter_hook and           *)
(* call_action_hook, one plugin of the snapshot at a time.  dsp.pc is the   *)
(* position in the loop: "inst" before get_bindings of plugin i, "call"    *)
(* before its handle_filter/handle_action, "done" when the call returned.  *)
(* A payload is the sequence of the plugins that rewrote it, after the     *)
(* caller's own content.                                                   *)

FilterHook == "post_published_filter"

ActionHook == "action_user_created"

\* LoadedPlugins handed to register_plugin
DispatchPlugins ==
    { [plugin_id |-> id, version |-> v, registered_hooks |-> hooks,
       granted_permissions |-> {"post:write", "user:read"}] :
        id \in PluginIds, v \in Versions,
        hooks \in { <<FilterHook>>, <<ActionHook>>, << >> } }

\* payloads handed to the dispatcher
Payloads == { << >>, <<"draft">> }

\* what handle_filter of a plugin returns when it returns Ok: the payload with
\* the plugin's own edit
PluginOutput(plugin, payload) == Append(payload, plugin.plugin_id)

\* the entry of the start of call_filter_hook / call_action_hook: the snapshot
\* of get_plugins_for_hook, modified_data = data.clone()
StartDispatch(kind, hook_name, data) ==
    [pc |-> "inst", kind |-> kind, hook |-> hook_name, input |-> data,
     snapshot |-> get_plugins_for_hook(World, hook_name), i |-> 1,
     modified_data |-> data, instantiated |-> << >>, invoked |-> << >>,
     result |-> NoResult]

\* AfterBindings with the snapshot entry looked up in the registry again: a
\* plugin unregistered since the snapshot is passed over
AfterBindingsLooksUpAgain(d, ok) ==
    LET plugin == d.snapshot[d.i] IN
    IF Key(plugin) \notin DOMAIN plugins
    THEN [d EXCEPT !.i = @ + 1]
    ELSE IF ok
    THEN [d EXCEPT !.pc = "call", !.instantiated = Append(@, Key(plugin))]
    ELSE [d EXCEPT !.pc = "done",
                   !.result = [ok |-> FALSE, data |-> << >>, plugin |-> "",
                               hook |-> "", cause |-> "instantiate"]]

\* get_bindings(&plugin).await? of either pipeline: an instantiation error
\* leaves the function as it is
AfterBindings(d, ok) ==
    LET plugin == d.snapshot[d.i] IN
    IF ok
    THEN [d EXCEPT !.pc = "call", !.instantiated = Append(@, Key(plugin))]
    ELSE [d EXCEPT !.pc = "done",
                   !.result = [ok |-> FALSE, data |-> << >>, plugin |-> "",
                               hook |-> "", cause |-> "instantiate"]]

\* FilterStep with every plugin handed the caller's data instead of the
\* previous plugin's output
FilterStepFeedsInput(d, outcome) ==
    LET plugin == d.snapshot[d.i]
        called == Append(d.invoked, [key |-> Key(plugin), input |-> d.input,
                                     outcome |-> outcome])
    IN IF outcome = "ok"
       THEN [d EXCEPT !.pc = "inst", !.i = @ + 1, !.invoked = called,
                      !.modified_data = PluginOutput(plugin, d.input)]
       ELSE [d EXCEPT !.pc = "done", !.invoked = called,
                      !.result = [ok |-> FALSE, data |-> << >>,
                                  plugin |-> plugin.plugin_id, hook |-> d.hook,
                                  cause |-> outcome]]

\* call_filter_hook, the match on call_handle_filter: outcome is "ok"
\* (Ok(Ok(result))), "err" (Ok(Err(e))) or "trap" (Err(e))
FilterStep(d, outcome) ==
    LET plugin == d.snapshot[d.i]
        called == Append(d.invoked, [key |-> Key(plugin), input |-> d.modified_data,
                                     outcome |-> outcome])
    IN CASE outcome = "ok" ->
              [d EXCEPT !.pc = "inst", !.i = @ + 1, !.invoked = called,
                        !.modified_data = PluginOutput(plugin, @)]
         [] outcome = "err" ->
              [d EXCEPT !.pc = "done", !.invoked = called,
                        !.result = [ok |-> FALSE, data |-> << >>,
                                    plugin |-> plugin.plugin_id, hook |-> d.hook,
                                    cause |-> "err"]]
         [] OTHER ->
              [d EXCEPT !.pc = "done", !.invoked = called,
                        !.result = [ok |-> FALSE, data |-> << >>,
                                    plugin |-> plugin.plugin_id, hook |-> "",
                                    cause |-> "trap"]]

\* ActionStep with a trap of handle_action propagated to the caller
ActionStepPropagates(d, outcome) ==
    LET plugin == d.snapshot[d.i]
        called == Append(d.invoked, [key |-> Key(plugin), input |-> d.input,
                                     outcome |-> outcome])
    IN IF outcome = "trap"
       THEN [d EXCEPT !.pc = "done", !.invoked = called,
                      !.result = [ok |-> FALSE, data |-> << >>,
                                  plugin |-> plugin.plugin_id, hook |-> "",
                                  cause |-> "trap"]]
       ELSE [d EXCEPT !.pc = "inst", !.i = @ + 1, !.invoked = called]

\* call_action_hook, the match on call_handle_action: Ok(_) and Err(e) both
\* go on to the next plugin
ActionStep(d, outcome) ==
    LET plugin == d.snapshot[d.i]
        called == Append(d.invoked, [key |-> Key(plugin), input |-> d.input,
                                     outcome |-> outcome])
    IN [d EXCEPT !.pc = "inst", !.i = @ + 1, !.invoked = called]

\* the end of the loop: Ok(modified_data) or Ok(())
EndOfLoop(d) ==
    [d EXCEPT !.pc = "done",
              !.result = [ok |-> TRUE,
                          data |-> IF d.kind = "filter" THEN d.modified_data ELSE << >>,
                          plugin |-> "", hook |-> "", cause |-> ""]]

RegistryFrame == UNCHANGED <<db, rpk_files, last, host, fs, tasks>>

\* PluginRegistry::register_plugin called with a LoadedPlugin
RegisterPlugin(p) ==
    LET r == register_plugin(World, p) IN
    /\ dsp.pc = "idle"
    /\ BucketsWithin(r.hook_to_plugins)
    /\ plugins' = r.plugins
    /\ hook_to_plugins' = r.hook_to_plugins
    /\ UNCHANGED dsp
    /\ RegistryFrame

\* PluginRegistry::unregister_plugin_with_version
UnregisterPluginWithVersion(id, version) ==
    LET r == unregister_plugin_with_version(World, id, version) IN
    /\ dsp.pc = "idle"
    /\ plugins' = r.plugins
    /\ hook_to_plugins' = r.hook_to_plugins
    /\ UNCHANGED dsp
    /\ RegistryFrame

CallFilterHook(hook_name, data) ==
    /\ dsp.pc = "idle"
    /\ dsp' = StartDispatch("filter", hook_name, data)
    /\ UNCHANGED <<plugins, hook_to_plugins>>
    /\ RegistryFrame

CallActionHook(hook_name, data) ==
    /\ dsp.pc = "idle"
    /\ dsp' = StartDispatch("action", hook_name, data)
    /\ UNCHANGED <<plugins, hook_to_plugins>>
    /\ RegistryFrame

GetBindings(ok) ==
    /\ dsp.pc = "inst"
    /\ dsp.i <= Len(dsp.snapshot)
    /\ dsp' = AfterBindings(dsp, ok)
    /\ UNCHANGED <<plugins, hook_to_plugins>>
    /\ RegistryFrame

CallHandleFilter(outcome) ==
    /\ dsp.pc = "call"
    /\ dsp.kind = "filter"
    /\ dsp' = FilterStep(dsp, outcome)
    /\ UNCHANGED <<plugins, hook_to_plugins>>
    /\ RegistryFrame

CallHandleAction(outcome) ==
    /\ dsp.pc = "call"
    /\ dsp.kind = "action"
    /\ dsp' = ActionStep(dsp, outcome)
    /\ UNCHANGED <<plugins, hook_to_plugins>>
    /\ RegistryFrame

ReturnOk ==
    /\ dsp.pc = "inst"
    /\ dsp.i > Len(dsp.snapshot)
    /\ dsp' = EndOfLoop(dsp)
    /\ UNCHANGED <<plugins, hook_to_plugins>>
    /\ RegistryFrame

\* the caller has the result; the registry is free for the next call
Returned ==
    /\ dsp.pc = "done"
    /\ dsp' = DspIdle
    /\ UNCHANGED <<plugins, hook_to_plugins>>
    /\ RegistryFrame

NextDispatch ==
    \/ \E p \in DispatchPlugins : RegisterPlugin(p)
    \/ \E id \in PluginIds, v \in Versions : UnregisterPluginWithVersion(id, v)
    \/ \E x \in Payloads : CallFilterHook(FilterHook, x)
    \/ \E x \in Payloads : CallActionHook(ActionHook, x)
    \/ \E ok \in BOOLEAN : GetBindings(ok)
    \/ \E o \in {"ok", "err", "trap"} : CallHandleFilter(o)
    \/ \E o \in {"ok", "err", "trap"} : CallHandleAction(o)
    \/ ReturnOk
    \/ Returned

SpecDispatch == Init /\ [][NextDispatch]_vars

----------------------------------------------------------------------------
(* Termination of a dispatch (specification SpecTermination): the          *)
(* dispatcher of SpecDispatch run by a fair executor, with plugins whose   *)
(* handle_filter / handle_action may never complete.  The dispatcher       *)
(* awaits the call without a deadline (the engine is configured with       *)
(* neither epoch interruption nor fuel), so dsp.pc stays "running".        *)

\* .call_handle_filter(store, ..).await / .call_handle_action(store, ..).await
\* on an invocation that never completes
CallHandleNeverCompletes ==
    /\ dsp.pc = "call"
    /\ dsp' = [dsp EXCEPT !.pc = "running"]
    /\ UNCHANGED <<plugins, hook_to_plugins>>
    /\ RegistryFrame

NextTermination ==
    \/ NextDispatch
    \/ CallHandleNeverCompletes

SpecTermination == Init /\ [][NextTermination]_vars /\ WF_vars(NextTermination)

----------------------------------------------------------------------------
(* Dispatch under concurrent registry calls (specification SpecConcurrent). *)
(* A task of tasks is a register_plugin or unregister_plugin_with_version   *)
(* call between its two critical sections: the one under plugins.write()   *)
(* is done, the one under hook_to_plugins.write() is still to come.  The   *)
(* steps of the dispatch in dsp interleave with the tasks' sections.       *)

Tasks == {"t1", "t2"}

\* LoadedPlugins registered while a dispatch runs
ConcurrentPlugins ==
    { [plugin_id |-> id, version |-> v, registered_hooks |-> <<FilterHook, ActionHook>>,
       granted_permissions |-> {"post:write", "user:read"}] :
        id \in PluginIds, v \in Versions }

TaskFrame == UNCHANGED <<db, rpk_files, last, dsp, host, fs>>

\* register_plugin, the block under plugins.write()
RegisterInsert(t, p) ==
    /\ t \notin DOMAIN tasks
    /\ plugins' = MapPut(plugins, Key(p), p)
    /\ tasks' = MapPut(tasks, t, [op |-> "register_plugin", plugin |-> p])
    /\ UNCHANGED hook_to_plugins
    /\ TaskFrame

\* register_plugin, the block under hook_to_plugins.write(), and the return
RegisterHooks(t) ==
    /\ t \in DOMAIN tasks
    /\ tasks[t].op = "register_plugin"
    /\ LET h2p == PushHooks(hook_to_plugins, tasks[t].plugin.registered_hooks,
                            Key(tasks[t].plugin))
       IN /\ BucketsWithin(h2p)
          /\ hook_to_plugins' = h2p
    /\ tasks' = MapRemove(tasks, t)
    /\ UNCHANGED plugins
    /\ TaskFrame

\* unregister_plugin_with_version, plugins.remove(..) under plugins.write();
\* with no such plugin the call returns its error at once
UnregisterRemove(t, id, version) ==
    /\ t \notin DOMAIN tasks
    /\ plugins' = MapRemove(plugins, <<id, version>>)
    /\ tasks' = IF <<id, version>> \in DOMAIN plugins
                THEN MapPut(tasks, t, [op |-> "unregister_plugin_with_version",
                                       plugin |-> plugins[<<id, version>>]])
                ELSE tasks
    /\ UNCHANGED hook_to_plugins
    /\ TaskFrame

\* unregister_plugin_with_version, the retain loop under
\* hook_to_plugins.write(), and the return
UnregisterHooks(t) ==
    /\ t \in DOMAIN tasks
    /\ tasks[t].op = "unregister_plugin_with_version"
    /\ hook_to_plugins' = RetainHooks(hook_to_plugins, tasks[t].plugin.registered_hooks,
                                      Key(tasks[t].plugin))
    /\ tasks' = MapRemove(tasks, t)
    /\ UNCHANGED plugins
    /\ TaskFrame

NextConcurrent ==
    \/ \E t \in Tasks, p \in ConcurrentPlugins : RegisterInsert(t, p)
    \/ \E t \in Tasks : RegisterHooks(t)
    \/ \E t \in Tasks, id \in PluginIds, v \in Versions : UnregisterRemove(t, id, v)
    \/ \E t \in Tasks : UnregisterHooks(t)
    \/ CallFilterHook(FilterHook, <<"draft">>)
    \/ CallActionHook(ActionHook, <<"draft">>)
    \/ \E ok \in BOOLEAN : GetBindings(ok)
    \/ \E o \in {"ok", "trap"} : CallHandleFilter(o)
    \/ \E o \in {"ok", "trap"} : CallHandleAction(o)
    \/ ReturnOk
    \/ Returned

SpecConcurrent == Init /\ [][NextConcurrent]_vars

----------------------------------------------------------------------------
(* The registry's locks (specification SpecLocks).  plugins and            *)
(* hook_to_plugins are tokio RwLocks: waiters are served in arrival order, *)
(* a reader is admitted while no writer holds the lock, a writer while     *)
(* nobody holds it.  A task of tasks is one call of register_plugin,       *)
(* unregister_plugin, unregister_plugin_with_version or                    *)
(* get_plugins_for_hook; stage is the lock acquisition the call has come   *)
(* to, pc whether it waits for that lock ("wait") or holds it ("hold"),    *)
(* rank its place among the waiters of the lock.                           *)

LockTasks == {"t1", "t2", "t3"}

\* LoadedPlugins the concurrent callers register
LockPlugins ==
    { p \in DispatchPlugins : p.registered_hooks = <<FilterHook>> }

NoPlugin == [plugin_id |-> "", version |-> "", registered_hooks |-> << >>,
             granted_permissions |-> {}]

\* the lock a call acquires at a stage
LockOf(task) ==
    CASE task.op = "register_plugin" ->
            IF task.stage = 1 THEN "plugins" ELSE "hook_to_plugins"
      [] task.op = "unregister_plugin" ->
            IF task.stage = 3 THEN "hook_to_plugins" ELSE "plugins"
      [] OTHER ->
            IF task.stage = 1 THEN "hook_to_plugins" ELSE "plugins"

\* .read() or .write()
ModeOf(task) == IF task.op = "get_plugins_for_hook" THEN "r" ELSE "w"

\* HoldsLock with register_plugin's first guard kept until the function
\* returns instead of dropped at the end of its block
HoldsLockUntilReturn(t, lock) ==
    \/ tasks[t].pc = "hold" /\ LockOf(tasks[t]) = lock
    \/ tasks[t].op = "get_plugins_for_hook" /\ tasks[t].stage = 2
          /\ lock = "hook_to_plugins"
    \/ tasks[t].op = "register_plugin" /\ tasks[t].stage = 2 /\ lock = "plugins"

\* task t holds a guard of the lock: the one of its stage, and for
\* get_plugins_for_hook the read guard of hook_to_plugins while it acquires
\* and holds plugins
HoldsLock(t, lock) ==
    \/ tasks[t].pc = "hold" /\ LockOf(tasks[t]) = lock
    \/ tasks[t].op = "get_plugins_for_hook" /\ tasks[t].stage = 2
          /\ lock = "hook_to_plugins"

Waiters(lock) ==
    {t \in DOMAIN tasks : tasks[t].pc = "wait" /\ LockOf(tasks[t]) = lock}

\* the lock admits the first waiter
CanAcquire(t) ==
    LET lock == LockOf(tasks[t]) IN
    /\ tasks[t].pc = "wait"
    /\ tasks[t].rank = 1
    /\ IF ModeOf(tasks[t]) = "r"
       THEN \A u \in DOMAIN tasks \ {t} :
                ~(HoldsLock(u, lock) /\ ModeOf(tasks[u]) = "w")
       ELSE \A u \in DOMAIN tasks \ {t} : ~HoldsLock(u, lock)

\* task t, at stage, joins the waiters of the lock of that stage
Enqueue(tks, t, task, stage) ==
    LET at == [task EXCEPT !.stage = stage, !.pc = "wait"]
        lock == LockOf(at)
        ahead == {u \in DOMAIN tks \ {t} :
                     tks[u].pc = "wait" /\ LockOf(tks[u]) = lock}
    IN MapPut(tks, t, [at EXCEPT !.rank = Cardinality(ahead) + 1])

NewTask(op, plugin, todo, hook) ==
    [op |-> op, stage |-> 1, pc |-> "wait", rank |-> 0, plugin |-> plugin,
     todo |-> todo, hook |-> hook]

LockFrame == UNCHANGED <<db, rpk_files, last, dsp, host, fs>>

\* registrations that have not pushed their hooks yet
PendingPushes ==
    Cardinality({t \in DOMAIN tasks : tasks[t].op = "register_plugin"})

\* a caller enters register_plugin and reaches self.plugins.write().await
StartRegisterPlugin(t, p) ==
    /\ t \notin DOMAIN tasks
    /\ LET bucket == IF FilterHook \in DOMAIN hook_to_plugins
                     THEN hook_to_plugins[FilterHook] ELSE << >>
       IN Len(bucket) + PendingPushes < MaxBucket
    /\ tasks' = Enqueue(tasks, t, NewTask("register_plugin", p, << >>, ""), 1)
    /\ UNCHANGED <<plugins, hook_to_plugins>>
    /\ LockFrame

\* a caller enters unregister_plugin and reaches self.plugins.write().await
StartUnregisterPlugin(t, id) ==
    /\ t \notin DOMAIN tasks
    /\ tasks' = Enqueue(tasks, t,
                        NewTask("unregister_plugin",
                                [NoPlugin EXCEPT !.plugin_id = id], << >>, ""), 1)
    /\ UNCHANGED <<plugins, hook_to_plugins>>
    /\ LockFrame

\* a caller enters unregister_plugin_with_version: the body of the loop of
\* unregister_plugin for one key
StartUnregisterPluginWithVersion(t, id, version) ==
    /\ t \notin DOMAIN tasks
    /\ tasks' = Enqueue(tasks, t,
                        NewTask("unregister_plugin", NoPlugin, <<<<id, version>>>>, ""), 2)
    /\ UNCHANGED <<plugins, hook_to_plugins>>
    /\ LockFrame

\* a caller enters get_plugins_for_hook and reaches
\* self.hook_to_plugins.read().await
StartGetPluginsForHook(t, hook_name) ==
    /\ t \notin DOMAIN tasks
    /\ tasks' = Enqueue(tasks, t, NewTask("get_plugins_for_hook", NoPlugin, << >>,
                                          hook_name), 1)
    /\ UNCHANGED <<plugins, hook_to_plugins>>
    /\ LockFrame

\* the lock hands its guard to the first waiter; the others move up
Acquire(t) ==
    /\ t \in DOMAIN tasks
    /\ CanAcquire(t)
    /\ tasks' = [u \in DOMAIN tasks |->
                    IF u = t THEN [tasks[u] EXCEPT !.pc = "hold", !.rank = 0]
                    ELSE IF u \in Waiters(LockOf(tasks[t]))
                    THEN [tasks[u] EXCEPT !.rank = @ - 1]
                    ELSE tasks[u]]
    /\ UNCHANGED <<plugins, hook_to_plugins>>
    /\ LockFrame

\* register_plugin under a guard: the insert, then the pushes and the return
RegisterSection(t) ==
    LET task == tasks[t] IN
    IF task.stage = 1
    THEN /\ plugins' = MapPut(plugins, Key(task.plugin), task.plugin)
         /\ tasks' = Enqueue(tasks, t, task, 2)
         /\ UNCHANGED hook_to_plugins
    ELSE /\ hook_to_plugins' = PushHooks(hook_to_plugins, task.plugin.registered_hooks,
                                         Key(task.plugin))
         /\ tasks' = MapRemove(tasks, t)
         /\ UNCHANGED plugins

\* unregister_plugin under a guard: stage 1 collects the keys of the plugin
\* id, stage 2 removes the first key from plugins (with no such plugin the
\* error is returned), stage 3 cleans the buckets and goes on to the next key
UnregisterSection(t) ==
    LET task == tasks[t] IN
    CASE task.stage = 1 ->
            LET keys == {k \in DOMAIN plugins : k[1] = task.plugin.plugin_id}
                todo == CHOOSE order \in Orders(keys) : TRUE
            IN /\ tasks' = IF keys = {} THEN MapRemove(tasks, t)
                           ELSE Enqueue(tasks, t, [task EXCEPT !.todo = todo], 2)
               /\ UNCHANGED <<plugins, hook_to_plugins>>
      [] task.stage = 2 ->
            LET key == Head(task.todo) IN
            /\ plugins' = MapRemove(plugins, key)
            /\ tasks' = IF key \in DOMAIN plugins
                        THEN Enqueue(tasks, t, [task EXCEPT !.plugin = plugins[key]], 3)
                        ELSE MapRemove(tasks, t)
            /\ UNCHANGED hook_to_plugins
      [] OTHER ->
            /\ hook_to_plugins' = RetainHooks(hook_to_plugins, task.plugin.registered_hooks,
                                              Key(task.plugin))
            /\ tasks' = IF Tail(task.todo) = << >> THEN MapRemove(tasks, t)
                        ELSE Enqueue(tasks, t, [task EXCEPT !.todo = Tail(@)], 2)
            /\ UNCHANGED plugins

\* get_plugins_for_hook: with the read guard of hook_to_plugins it reaches
\* self.plugins.read().await; with both guards it builds the list, drops
\* them and returns
GetSection(t) ==
    LET task == tasks[t] IN
    /\ tasks' = IF task.stage = 1 THEN Enqueue(tasks, t, task, 2)
                ELSE MapRemove(tasks, t)
    /\ UNCHANGED <<plugins, hook_to_plugins>>

\* what task t does with the guard it holds, up to its next await or return
Section(t) ==
    /\ t \in DOMAIN tasks
    /\ tasks[t].pc = "hold"
    /\ CASE tasks[t].op = "register_plugin" -> RegisterSection(t)
         [] tasks[t].op = "unregister_plugin" -> UnregisterSection(t)
         [] OTHER -> GetSection(t)
    /\ LockFrame

NextLocks ==
    \/ \E t \in LockTasks, p \in LockPlugins : StartRegisterPlugin(t, p)
    \/ \E t \in LockTasks, id \in PluginIds : StartUnregisterPlugin(t, id)
    \/ \E t \in LockTasks, id \in PluginIds, v \in Versions :
          StartUnregisterPluginWithVersion(t, id, v)
    \/ \E t \in LockTasks : StartGetPluginsForHook(t, FilterHook)
    \/ \E t \in LockTasks : Acquire(t)
    \/ \E t \in LockTasks : Section(t)

\* the runtime keeps polling every task, and the lock wakes its first waiter
SpecLocks ==
    /\ Init
    /\ [][NextLocks]_vars
    /\ \A t \in LockTasks : WF_vars(Acquire(t)) /\ WF_vars(Section(t))

----------------------------------------------------------------------------
(* Concurrent installs (specification SpecInstallRace).  Each task of      *)
(* tasks is one call of install_plugin, at its existence query ("check"),  *)
(* its install_rpk ("save"), its insert ("insert") or back at its caller   *)
(* ("returned").  In this specification db is the plugins table as the     *)
(* sequence of its rows in the order of their auto-increment id, so that   *)
(* two rows of one plugin_id can be told from one.                         *)

RaceTasks == {"t1", "t2", "t3"}

RaceManifests ==
    { [id |-> id, version |-> v, required |-> {},
       hooks |-> <<"action_system_startup">>] :
        id \in PluginIds, v \in UpgradeVersions }

RaceFrame == UNCHANGED <<plugins, hook_to_plugins, last, dsp, host, fs>>

\* the row install_plugin builds
InstallRow(m) ==
    [plugin_id |-> m.id, name |-> m.id, version |-> m.version,
     enabled |-> FALSE, status |-> "disabled",
     granted_permissions |-> Some({}), manifest |-> m]

\* Entity::find().filter(PluginId.eq(plugin_id)).one(db): Plugin already
\* exists, or go on to install_rpk
InstallCheck(t, m) ==
    /\ t \notin DOMAIN tasks
    /\ tasks' = MapPut(tasks, t,
                       IF \E i \in DOMAIN db : db[i].plugin_id = m.id
                       THEN [pc |-> "returned", manifest |-> m, ok |-> FALSE,
                             error |-> "Plugin already exists"]
                       ELSE [pc |-> "save", manifest |-> m, ok |-> FALSE,
                             error |-> ""])
    /\ UNCHANGED <<db, rpk_files>>
    /\ RaceFrame

\* rpk_processor.install_rpk(..): the package file is written
InstallSave(t) ==
    /\ t \in DOMAIN tasks
    /\ tasks[t].pc = "save"
    /\ rpk_files' = MapPut(rpk_files,
                           <<tasks[t].manifest.id, tasks[t].manifest.version>>,
                           tasks[t].manifest)
    /\ tasks' = [tasks EXCEPT ![t].pc = "insert"]
    /\ UNCHANGED db
    /\ RaceFrame

\* InstallInsert on a table whose name column has no unique key
InstallInsertAnyName(t) ==
    /\ t \in DOMAIN tasks
    /\ tasks[t].pc = "insert"
    /\ db' = Append(db, InstallRow(tasks[t].manifest))
    /\ tasks' = [tasks EXCEPT ![t].pc = "returned", ![t].ok = TRUE]
    /\ UNCHANGED rpk_files
    /\ RaceFrame

\* plugin_model.insert(db).await?: the name column, which install_plugin
\* sets to the plugin id, has a unique key; a second row of that name is
\* refused by the store and the DbErr returned
InstallInsert(t) ==
    /\ t \in DOMAIN tasks
    /\ tasks[t].pc = "insert"
    /\ IF \E i \in DOMAIN db : db[i].name = InstallRow(tasks[t].manifest).name
       THEN /\ tasks' = [tasks EXCEPT ![t].pc = "returned",
                                      ![t].error = "unique key"]
            /\ UNCHANGED db
       ELSE /\ db' = Append(db, InstallRow(tasks[t].manifest))
            /\ tasks' = [tasks EXCEPT ![t].pc = "returned", ![t].ok = TRUE]
    /\ UNCHANGED rpk_files
    /\ RaceFrame

NextInstallRace ==
    \/ \E t \in RaceTasks, m \in RaceManifests : InstallCheck(t, m)
    \/ \E t \in RaceTasks : InstallSave(t)
    \/ \E t \in RaceTasks : InstallInsert(t)

SpecInstallRace == Init /\ [][NextInstallRace]_vars

----------------------------------------------------------------------------
(* Host API broker (specification SpecHost): one PluginHostState, built    *)
(* by new_state for one invocation of handle_filter, and the host          *)
(* functions the plugin calls before it returns.  host.ret is what the     *)
(* last host function returned: outer is the wasmtime result ("Err" traps  *)
(* the instance), inner the result inside the plugin ABI.                  *)

HostPerms == {"ai:chat", "ai:list_models", "post:list_category"}

NoRet == [fn |-> "none", outer |-> "Ok", inner |-> "-", what |-> "", perms |-> {}]

\* PluginHostState::new, as new_state builds it from a LoadedPlugin
NewHostState(plugin_id, granted, ai_helper) ==
    [pc |-> "running", plugin_id |-> plugin_id, granted_permissions |-> granted,
     ai_helper |-> ai_helper, calls |-> 0, chat_calls |-> 0, model_calls |-> 0,
     stats_calls |-> 0, ret |-> NoRet]

Ret(fn, outer, inner, what) ==
    [fn |-> fn, outer |-> outer, inner |-> inner, what |-> what, perms |-> {}]

\* chat_completion with the permission check left out
chat_completion_unchecked(h, service_ok) ==
    IF h.ai_helper
    THEN [h EXCEPT !.chat_calls = @ + 1,
                   !.ret = IF service_ok
                           THEN Ret("chat_completion", "Ok", "Ok", "response")
                           ELSE Ret("chat_completion", "Ok", "Err", "service_error")]
    ELSE [h EXCEPT !.ret = Ret("chat_completion", "Ok", "Err", "unavailable")]

\* Host::chat_completion (host/ai.rs); service_ok is the outcome of
\* AiService::chat_completion when it is called
chat_completion(h, service_ok) ==
    IF "ai:chat" \notin h.granted_permissions
    THEN [h EXCEPT !.ret = Ret("chat_completion", "Ok", "Err", "permission_denied")]
    ELSE IF h.ai_helper
    THEN [h EXCEPT !.chat_calls = @ + 1,
                   !.ret = IF service_ok
                           THEN Ret("chat_completion", "Ok", "Ok", "response")
                           ELSE Ret("chat_completion", "Ok", "Err", "service_error")]
    ELSE [h EXCEPT !.ret = Ret("chat_completion", "Ok", "Err", "unavailable")]

\* Host::list_models (host/ai.rs): an empty list stands for every refusal
list_models(h, service_ok) ==
    IF "ai:list_models" \notin h.granted_permissions
    THEN [h EXCEPT !.ret = Ret("list_models", "Ok", "-", "empty")]
    ELSE IF h.ai_helper
    THEN [h EXCEPT !.model_calls = @ + 1,
                   !.ret = IF service_ok
                           THEN Ret("list_models", "Ok", "-", "models")
                           ELSE Ret("list_models", "Ok", "-", "empty")]
    ELSE [h EXCEPT !.ret = Ret("list_models", "Ok", "-", "empty")]

\* Host::list_categories (host/posts.rs): the repository is queried first;
\* its error is returned as the host function's error
list_categories(h, repo_ok) ==
    [h EXCEPT !.stats_calls = @ + 1,
              !.ret = IF repo_ok
                      THEN Ret("list_categories", "Ok", "-", "categories")
                      ELSE Ret("list_categories", "Err", "-", "repository_error")]

\* Host::list_permissions (host/permissions.rs)
list_permissions(h) ==
    [h EXCEPT !.ret = [fn |-> "list_permissions", outer |-> "Ok", inner |-> "-",
                       what |-> "", perms |-> h.granted_permissions]]

\* Host::permission_granted (host/permissions.rs)
permission_granted(h, permission) == permission \in h.granted_permissions

\* PluginRegistry::new_state: the host state of an invocation is built from
\* the LoadedPlugin's own granted_permissions
new_state(plugin, ai_helper) ==
    NewHostState(plugin.plugin_id, plugin.granted_permissions, ai_helper)

\* a host function returned to the instance: an Err of the host function
\* traps it
Resume(h) ==
    [h EXCEPT !.calls = @ + 1,
              !.pc = IF h.ret.outer = "Err" THEN "trapped" ELSE "running"]

HostFrame == UNCHANGED <<db, rpk_files, plugins, hook_to_plugins, last, dsp, fs, tasks>>

CanCall == host.pc = "running" /\ host.calls < MaxHostCalls

ChatCompletion(service_ok) ==
    /\ CanCall
    /\ host' = Resume(chat_completion(host, service_ok))
    /\ HostFrame

ListModels(service_ok) ==
    /\ CanCall
    /\ host' = Resume(list_models(host, service_ok))
    /\ HostFrame

ListCategories(repo_ok) ==
    /\ CanCall
    /\ host' = Resume(list_categories(host, repo_ok))
    /\ HostFrame

ListPermissions ==
    /\ CanCall
    /\ host' = Resume(list_permissions(host))
    /\ HostFrame

\* handle_filter returns Ok(payload) or Err(message) to the dispatcher
PluginReturns(ok) ==
    /\ host.pc = "running"
    /\ host' = [host EXCEPT !.pc = IF ok THEN "returned_ok" ELSE "returned_err"]
    /\ HostFrame

InitHost ==
    /\ db = EmptyMap
    /\ rpk_files = EmptyMap
    /\ plugins = EmptyMap
    /\ hook_to_plugins = EmptyMap
    /\ last = NoOp
    /\ dsp = DspIdle
    /\ fs = FsEmpty
    /\ tasks = NoTasks
    /\ \E id \in PluginIds, granted \in SUBSET HostPerms, ai_helper \in BOOLEAN :
          host = NewHostState(id, granted, ai_helper)

NextHost ==
    \/ \E ok \in BOOLEAN : ChatCompletion(ok)
    \/ \E ok \in BOOLEAN : ListModels(ok)
    \/ \E ok \in BOOLEAN : ListCategories(ok)
    \/ ListPermissions
    \/ \E ok \in BOOLEAN : PluginReturns(ok)

SpecHost == InitHost /\ [][NextHost]_vars

----------------------------------------------------------------------------
(* Package archives (specification SpecArchive).  An archive is the set of *)
(* its entry names and the package id of its manifest; an entry name is    *)
(* what ZipFile::name() returns, kept as whether it is absolute and its    *)
(* components.  A path is the sequence of its components from the root.    *)

ManifestEntry == [absolute |-> FALSE, comps |-> <<"manifest.toml">>]

WasmEntry == [absolute |-> FALSE, comps |-> <<"plugin.wasm">>]

EntryNames ==
    { ManifestEntry, WasmEntry,
      [absolute |-> FALSE, comps |-> <<"..", "..", "evil.sh">>],
      [absolute |-> TRUE, comps |-> <<"etc", "evil.sh">>] }

\* the plugin id install_rpk is called with
InstallIds == {"org.a"}

Archives ==
    [id : PluginIds, names : {s \in SUBSET EntryNames : Cardinality(s) <= MaxEntries}]

UnsafeName(n) == n.absolute \/ ".." \in Range(n.comps)

UnsafeArchive(names) == \E n \in names : UnsafeName(n)

\* RpkProcessor::install_dir and RpkProcessor::cache_dir
InstallDir == <<"data", "plugins">>

CacheDir == <<"data", "plugin_cache">>

\* the directory the caller of cache_package_files chooses for a plugin
PackageCacheDir(id) == CacheDir \o <<id>>

\* rpk_processor.cache_dir().join(temp_id) in load_plugin_from_rpk_data
ExtractDir == CacheDir \o <<"temp_0">>

\* Path::join: an absolute argument replaces the base
Join(base, n) == IF n.absolute THEN n.comps ELSE base \o n.comps

RECURSIVE Resolve(_, _)
\* the file the operating system opens for a path: each ".." leaves the
\* directory reached so far
Resolve(comps, acc) ==
    IF comps = << >> THEN acc
    ELSE IF Head(comps) = ".."
    THEN Resolve(Tail(comps), IF acc = << >> THEN acc ELSE SubSeq(acc, 1, Len(acc) - 1))
    ELSE Resolve(Tail(comps), Append(acc, Head(comps)))

Within(p, dir) == Len(p) > Len(dir) /\ SubSeq(p, 1, Len(dir)) = dir

\* fs::remove_dir_all(dir)
RemoveDirAll(files, dir) == {p \in files : ~Within(p, dir)}

\* the write loops of cache_package_files and of load_plugin_from_rpk_data:
\* one file at dir.join(name) for every entry
WriteEntries(dir, names) == {Resolve(Join(dir, n), << >>) : n \in names}

\* extract_and_validate: the entries are read into memory; the package needs
\* a manifest.toml, the expected id in it, and a plugin.wasm
extract_and_validate(a, expected_plugin_id) ==
    /\ ManifestEntry \in a.names
    /\ a.id = expected_plugin_id
    /\ WasmEntry \in a.names

Wrote(op, id, ok, names, written, dir) ==
    [op |-> op, id |-> id, ok |-> ok, unsafe |-> UnsafeArchive(names),
     written |-> written, dir |-> dir]

ArchiveFrame == UNCHANGED <<db, rpk_files, plugins, hook_to_plugins, last, dsp, host, tasks>>

\* RpkProcessor::install_rpk: the package is written to the install
\* directory under the plugin id, then read and validated
InstallRpk(plugin_id, a) ==
    /\ fs' = [files |-> fs.files \cup {InstallDir \o <<plugin_id>>},
              archives |-> MapPut(fs.archives, plugin_id, a),
              wr |-> Wrote("install_rpk", plugin_id,
                           extract_and_validate(a, plugin_id), a.names, {}, InstallDir)]
    /\ ArchiveFrame

\* RpkProcessor::cache_package_files on the package install_rpk returned
CachePackageFiles(plugin_id) ==
    /\ plugin_id \in DOMAIN fs.archives
    /\ extract_and_validate(fs.archives[plugin_id], plugin_id)
    /\ LET names == fs.archives[plugin_id].names
           dir == PackageCacheDir(plugin_id)
           cached == {dir \o <<"manifest.toml">>} \cup WriteEntries(dir, names)
       IN fs' = [fs EXCEPT !.files = @ \cup cached,
                           !.wr = Wrote("cache_package_files", plugin_id, TRUE, names,
                                        cached, dir)]
    /\ ArchiveFrame

\* PluginRegistry::load_plugin_from_rpk_data on a package of the install
\* directory, up to the LoadedPlugin it returns; compiles is the outcome of
\* Component::from_binary
LoadPluginFromRpkData(plugin_id, compiles) ==
    /\ plugin_id \in DOMAIN fs.archives
    /\ LET names == fs.archives[plugin_id].names
           extracted == WriteEntries(ExtractDir, names)
           after == fs.files \cup extracted
       IN IF ManifestEntry \notin names
          THEN fs' = [fs EXCEPT !.files = after,
                                !.wr = Wrote("load_plugin_from_rpk_data", plugin_id, FALSE,
                                             names, extracted, ExtractDir)]
          ELSE IF WasmEntry \notin names
          THEN fs' = [fs EXCEPT !.files = RemoveDirAll(after, ExtractDir),
                                !.wr = Wrote("load_plugin_from_rpk_data", plugin_id, FALSE,
                                             names, extracted, ExtractDir)]
          ELSE IF ~compiles
          THEN fs' = [fs EXCEPT !.files = after,
                                !.wr = Wrote("load_plugin_from_rpk_data", plugin_id, FALSE,
                                             names, extracted, ExtractDir)]
          ELSE fs' = [fs EXCEPT !.files = RemoveDirAll(after, ExtractDir),
                                !.wr = Wrote("load_plugin_from_rpk_data", plugin_id, TRUE,
                                             names, extracted, ExtractDir)]
    /\ ArchiveFrame

NextArchive ==
    \/ \E id \in InstallIds, a \in Archives : InstallRpk(id, a)
    \/ \E id \in InstallIds : CachePackageFiles(id)
    \/ \E id \in InstallIds, compiles \in BOOLEAN : LoadPluginFromRpkData(id, compiles)

SpecArchive == Init /\ [][NextArchive]_vars

----------------------------------------------------------------------------
(* Overlapping loads (specification SpecLoadRace).  Each task of tasks is  *)
(* one call of load_plugin_from_rpk_data on an archive, between its file   *)
(* system operations; second is the clock second at which it formed its    *)
(* temp_id.  fs.content says of every file of the cache directory which    *)
(* archive its bytes were extracted from.                                  *)

LoadTasks == {"t1", "t2"}

\* chrono::Utc::now().timestamp() of the calls
Seconds == {0, 1}

\* the archives handed to the loads: a manifest.toml, a plugin.wasm, both or
\* neither, from the package of either plugin
LoadArchives == {a \in Archives : a.names \subseteq {ManifestEntry, WasmEntry}}

\* format!("temp_{}", timestamp)
TempId(second) == IF second = 0 THEN "temp_0" ELSE "temp_1"

\* rpk_processor.cache_dir().join(&temp_id)
ExtractDirAt(second) == CacheDir \o <<TempId(second)>>

LoadRaceFrame ==
    UNCHANGED <<db, rpk_files, plugins, hook_to_plugins, last, dsp, host>>

\* the call forms its temp_id and extracts every entry of its archive into
\* the directory, over whatever is there
ExtractArchive(t, a, second) ==
    LET written == WriteEntries(ExtractDirAt(second), a.names) IN
    /\ t \notin DOMAIN tasks
    /\ fs' = [fs EXCEPT
                 !.files = @ \cup written,
                 !.content = [p \in fs.files \cup written |->
                                 IF p \in written THEN a.id ELSE fs.content[p]]]
    /\ tasks' = MapPut(tasks, t, [pc |-> "manifest", archive |-> a, second |-> second,
                                  manifest_from |-> "", wasm_from |-> "", ok |-> FALSE])
    /\ LoadRaceFrame

\* fs::read_to_string(extract_dir.join("manifest.toml"))?: the error leaves
\* the function
ReadManifest(t) ==
    LET path == ExtractDirAt(tasks[t].second) \o <<"manifest.toml">> IN
    /\ t \in DOMAIN tasks
    /\ tasks[t].pc = "manifest"
    /\ tasks' = IF path \in fs.files
                THEN [tasks EXCEPT ![t].pc = "locate",
                                   ![t].manifest_from = fs.content[path]]
                ELSE [tasks EXCEPT ![t].pc = "returned"]
    /\ UNCHANGED fs
    /\ LoadRaceFrame

\* if !plugin_wasm_path.exists() { remove_dir_all(extract_dir); return Err }
LocateWasm(t) ==
    LET dir == ExtractDirAt(tasks[t].second) IN
    /\ t \in DOMAIN tasks
    /\ tasks[t].pc = "locate"
    /\ IF dir \o <<"plugin.wasm">> \in fs.files
       THEN /\ tasks' = [tasks EXCEPT ![t].pc = "read"]
            /\ UNCHANGED fs
       ELSE /\ tasks' = [tasks EXCEPT ![t].pc = "returned"]
            /\ fs' = [fs EXCEPT
                         !.files = RemoveDirAll(@, dir),
                         !.content = [p \in RemoveDirAll(fs.files, dir) |-> fs.content[p]]]
    /\ LoadRaceFrame

\* fs::read(&plugin_wasm_path)? and Component::from_binary(..)?: either
\* error leaves the function
ReadWasm(t, compiles) ==
    LET path == ExtractDirAt(tasks[t].second) \o <<"plugin.wasm">> IN
    /\ t \in DOMAIN tasks
    /\ tasks[t].pc = "read"
    /\ tasks' = IF path \in fs.files /\ compiles
                THEN [tasks EXCEPT ![t].pc = "cleanup", ![t].wasm_from = fs.content[path]]
                ELSE [tasks EXCEPT ![t].pc = "returned"]
    /\ UNCHANGED fs
    /\ LoadRaceFrame

\* the LoadedPlugin is built; remove_dir_all(extract_dir); Ok(loaded_plugin)
CleanupAndReturn(t) ==
    LET dir == ExtractDirAt(tasks[t].second) IN
    /\ t \in DOMAIN tasks
    /\ tasks[t].pc = "cleanup"
    /\ tasks' = [tasks EXCEPT ![t].pc = "returned", ![t].ok = TRUE]
    /\ fs' = [fs EXCEPT
                 !.files = RemoveDirAll(@, dir),
                 !.content = [p \in RemoveDirAll(fs.files, dir) |-> fs.content[p]]]
    /\ LoadRaceFrame

InitLoadRace ==
    /\ db = EmptyMap
    /\ rpk_files = EmptyMap
    /\ plugins = EmptyMap
    /\ hook_to_plugins = EmptyMap
    /\ last = NoOp
    /\ dsp = DspIdle
    /\ host = HostIdle
    /\ fs = [files |-> {}, archives |-> EmptyMap, wr |-> NoWrite, content |-> EmptyMap]
    /\ tasks = NoTasks

NextLoadRace ==
    \/ \E t \in LoadTasks, a \in LoadArchives, second \in Seconds :
          ExtractArchive(t, a, second)
    \/ \E t \in LoadTasks : ReadManifest(t)
    \/ \E t \in LoadTasks : LocateWasm(t)
    \/ \E t \in LoadTasks, compiles \in BOOLEAN : ReadWasm(t, compiles)
    \/ \E t \in LoadTasks : CleanupAndReturn(t)

SpecLoadRace == InitLoadRace /\ [][NextLoadRace]_vars

----------------------------------------------------------------------------
(* Hook validation (specification SpecValidate): the validation of a       *)
(* manifest's hook list against the hook registry and a map of granted     *)
(* permissions.  The input is drawn by InitValidate and kept in last; the  *)
(* granted map gives each permission true, false or no entry.              *)

ValidatedHookNames ==
    {"action_system_startup", "action_user_created", "post_published_filter",
     "unknown_hook"}

HookLists == UNION {[1..n -> ValidatedHookNames] : n \in 0..MaxHooks}

GrantedMaps == [{"user:read", "post:write"} -> {"true", "false", "absent"}]

\* granted_permissions.get(required_perm).copied().unwrap_or(false)
has_permission(granted_permissions, required_perm) ==
    granted_permissions[required_perm] = "true"

NoValidation ==
    [ok |-> TRUE, valid_hooks |-> << >>, error |-> "", plugin_id |-> "",
     hook |-> "", required |-> "", examined |-> 0]

RECURSIVE ValidateFrom(_, _, _, _, _)
\* the validation loop without its permission check
ValidateFromDefinedOnly(plugin_id, hooks, granted_permissions, i, valid_hooks) ==
    IF i > Len(hooks)
    THEN [NoValidation EXCEPT !.valid_hooks = valid_hooks, !.examined = Len(hooks)]
    ELSE IF hooks[i] \notin DOMAIN HookDefinitions
    THEN [NoValidation EXCEPT !.ok = FALSE, !.error = "UnknownHook",
                              !.hook = hooks[i], !.examined = i]
    ELSE ValidateFrom(plugin_id, hooks, granted_permissions, i + 1,
                      Append(valid_hooks, hooks[i]))

\* the loop of validate_hooks_for_test from hook i on; examined counts the
\* hooks the loop has looked at when it returns
ValidateFrom(plugin_id, hooks, granted_permissions, i, valid_hooks) ==
    IF i > Len(hooks)
    THEN [NoValidation EXCEPT !.valid_hooks = valid_hooks, !.examined = Len(hooks)]
    ELSE IF hooks[i] \notin DOMAIN HookDefinitions
    THEN [NoValidation EXCEPT !.ok = FALSE, !.error = "UnknownHook",
                              !.hook = hooks[i], !.examined = i]
    ELSE IF /\ HookDefinitions[hooks[i]] # NoPerm
            /\ ~has_permission(granted_permissions, HookDefinitions[hooks[i]])
    THEN [NoValidation EXCEPT !.ok = FALSE, !.error = "PluginSecurityViolation",
                              !.plugin_id = plugin_id, !.hook = hooks[i],
                              !.required = HookDefinitions[hooks[i]],
                              !.examined = i]
    ELSE ValidateFrom(plugin_id, hooks, granted_permissions, i + 1,
                      Append(valid_hooks, hooks[i]))

\* validate_hooks_for_test(manifest, granted_permissions)
validate_hooks_for_test(plugin_id, hooks, granted_permissions) ==
    ValidateFrom(plugin_id, hooks, granted_permissions, 1, << >>)

ValidateHooks ==
    /\ last.op = "manifest"
    /\ last' = [last EXCEPT
                   !.op = "validate_hooks",
                   !.result = validate_hooks_for_test(last.plugin_id, last.hooks,
                                                      last.granted_permissions)]
    /\ UNCHANGED <<db, rpk_files, plugins, hook_to_plugins, dsp, host, fs, tasks>>

InitValidate ==
    /\ db = EmptyMap
    /\ rpk_files = EmptyMap
    /\ plugins = EmptyMap
    /\ hook_to_plugins = EmptyMap
    /\ dsp = DspIdle
    /\ host = HostIdle
    /\ fs = FsEmpty
    /\ tasks = NoTasks
    /\ \E hooks \in HookLists, granted \in GrantedMaps :
          last = [op |-> "manifest", plugin_id |-> "org.a", hooks |-> hooks,
                  granted_permissions |-> granted, result |-> NoValidation]

NextValidate == ValidateHooks

SpecValidate == InitValidate /\ [][NextValidate]_vars

----------------------------------------------------------------------------
(* Properties of package archives                                          *)

\* C4: an archive with an entry whose path has a ".." component or is
\* absolute is rejected when it is read and validated, on the install path
\* and on the load path, and no operation on an archive writes a file outside
\* the directory it extracts to.
C4_UnsafePathRejected ==
    /\ fs.wr.unsafe /\ fs.wr.op \in {"install_rpk", "load_plugin_from_rpk_data"}
          => ~fs.wr.ok
    /\ \A p \in fs.wr.written : Within(p, fs.wr.dir)

----------------------------------------------------------------------------
(* Properties of the host API broker                                       *)

\* C2: for a plugin without ai:chat, chat_completion returns the denial as an
\* error inside the plugin ABI result, the host call itself succeeding (the
\* instance is not trapped and may still return Ok(payload)), and
\* AiService::chat_completion is not invoked.
C2_ChatDenialDoesNotTrap ==
    "ai:chat" \notin host.granted_permissions
    => /\ host.chat_calls = 0
       /\ host.ret.fn = "chat_completion"
          => /\ host.ret.outer = "Ok"
             /\ host.ret.inner = "Err"
             /\ host.ret.what = "permission_denied"
             /\ host.pc # "trapped"
             /\ host.pc = "running" => ENABLED PluginReturns(TRUE)

\* the plugin was denied chat_completion and returned Ok(payload)
C2_Witness ==
    /\ "ai:chat" \notin host.granted_permissions
    /\ host.ai_helper
    /\ host.ret.fn = "chat_completion"
    /\ host.ret.what = "permission_denied"
    /\ host.pc = "returned_ok"

\* C3: for a plugin without post:list_category, list_categories returns a
\* denial without trapping the instance and without querying the category
\* statistics of the post repository.
C3_ListCategoriesDenied ==
    "post:list_category" \notin host.granted_permissions
    => /\ host.stats_calls = 0
       /\ host.ret.fn = "list_categories"
          => /\ host.ret.outer = "Ok"
             /\ host.ret.what = "permission_denied"
             /\ host.pc # "trapped"

----------------------------------------------------------------------------
(* Properties of the dispatcher                                            *)

\* the keys of the hook's bucket that have a LoadedPlugin, in bucket order
RegisteredFor(hook_name) ==
    LET IsLoaded(k) == k \in DOMAIN plugins IN
    IF hook_name \in DOMAIN hook_to_plugins
    THEN SelectSeq(hook_to_plugins[hook_name], IsLoaded)
    ELSE << >>

InvokedKeys == [j \in DOMAIN dsp.invoked |-> dsp.invoked[j].key]

Faulted(j) == dsp.invoked[j].outcome \in {"err", "trap"}

\* C5: filter abort on fault.  When the invocation of plugin Pi of the
\* snapshot returned Err or trapped, no later plugin was instantiated or
\* invoked, the dispatcher returned an error that names Pi and the hook, and
\* no payload came back.
C5_FilterAbortOnFault ==
    LET n == Len(dsp.invoked) IN
    (dsp.pc = "done" /\ dsp.kind = "filter" /\ n > 0 /\ Faulted(n))
    => /\ InvokedKeys = SubSeq(RegisteredFor(dsp.hook), 1, n)
       /\ dsp.instantiated = InvokedKeys
       /\ ~dsp.result.ok
       /\ dsp.result.plugin = dsp.invoked[n].key[1]
       /\ dsp.result.hook = dsp.hook
       /\ dsp.result.data = << >>

\* C6: action isolation.  When call_action_hook has returned and every
\* plugin could be instantiated, each of the N plugins registered for the
\* hook was invoked exactly once, in order, however many of them returned an
\* error or trapped, and the call returned Ok(()).
C6_ActionIsolation ==
    (dsp.pc = "done" /\ dsp.kind = "action" /\ dsp.result.cause # "instantiate")
    => /\ dsp.result.ok
       /\ InvokedKeys = RegisteredFor(dsp.hook)
       /\ dsp.instantiated = RegisteredFor(dsp.hook)

\* a finished action dispatch over at least two plugins, an earlier one of
\* which trapped
C6_Witness ==
    /\ dsp.pc = "done"
    /\ dsp.kind = "action"
    /\ dsp.result.ok
    /\ Len(dsp.invoked) >= 2
    /\ dsp.invoked[1].outcome = "trap"
    /\ dsp.invoked[2].outcome = "err"

\* C7: call_filter_hook(H, x) that returned Ok invoked the plugins registered
\* for H in bucket order, handed the first x and each next one the output of
\* the one before, and returned the output of the last; with no plugin
\* registered for H it returned x.
C7_FilterChain ==
    LET n == Len(dsp.invoked) IN
    (dsp.pc = "done" /\ dsp.kind = "filter" /\ dsp.result.ok)
    => /\ InvokedKeys = RegisteredFor(dsp.hook)
       /\ \A j \in 1..n :
             dsp.invoked[j].input =
                IF j = 1 THEN dsp.input
                ELSE Append(dsp.invoked[j - 1].input, dsp.invoked[j - 1].key[1])
       /\ dsp.result.data =
             IF n = 0 THEN dsp.input
             ELSE Append(dsp.invoked[n].input, dsp.invoked[n].key[1])

\* a filter dispatch of a non-empty payload through two different plugins
\* that returned Ok
C7_Witness ==
    /\ dsp.pc = "done"
    /\ dsp.kind = "filter"
    /\ dsp.result.ok
    /\ dsp.input # << >>
    /\ Len(dsp.invoked) = 2
    /\ dsp.invoked[1].key # dsp.invoked[2].key

----------------------------------------------------------------------------
(* Properties of the lifecycle                                             *)

\* the permissions stored for a record
StoredGrants(record) ==
    IF record.granted_permissions.some THEN record.granted_permissions.val ELSE {}

\* a hook passes hook validation for a set of grants: it is defined, and the
\* permission it requires, if any, is granted
HookPermitted(hook_name, granted) ==
    /\ is_valid_hook(hook_name)
    /\ get_hook_permission(hook_name) \in granted \cup {NoPerm}

\* some bucket of the hook index holds a key of plugin id
Indexed(h2p, id) ==
    \E h \in DOMAIN h2p : \E i \in DOMAIN h2p[h] : h2p[h][i][1] = id

\* the step is update_plugin(id, enabled = true) returning 200 on a record
\* that was not enabled
EnableStep(id) ==
    /\ id \in DOMAIN db
    /\ ~db[id].enabled
    /\ last'.op = "update_plugin"
    /\ last'.id = id
    /\ last'.enabled_req = "true"
    /\ last'.ok

\* C1: hook-permission soundness.  For every LoadedPlugin P in the plugins
\* map and every hook H of P.registered_hooks, get_hook_permission(H) is None
\* or a member of P.granted_permissions.
C1_HookPermissionSoundness ==
    \A k \in DOMAIN plugins :
        \A i \in DOMAIN plugins[k].registered_hooks :
            get_hook_permission(plugins[k].registered_hooks[i])
                \in plugins[k].granted_permissions \cup {NoPerm}

\* C8: enabling a plugin whose stored grants do not include every required
\* permission sets the record to pending_review with enabled = false, reports
\* that review is required with the missing permissions, and leaves the
\* plugins map and the hook index as they were.
C8_EnableWithMissingGrants ==
    [][\A id \in PluginIds :
        (EnableStep(id) /\ ~(db[id].manifest.required \subseteq StoredGrants(db[id])))
        => /\ db'[id].status = "pending_review"
           /\ ~db'[id].enabled
           /\ last'.requires_review
           /\ last'.new_permissions = db[id].manifest.required \ StoredGrants(db[id])
           /\ plugins' = plugins
           /\ hook_to_plugins' = hook_to_plugins]_vars

\* C9: enabling a disabled plugin whose stored grants cover its required
\* permissions leaves the record enabled, a LoadedPlugin for (plugin_id,
\* version) in the plugins map, and that key in the bucket of every declared
\* hook that passes hook validation.
C9_EnableLoadsPlugin ==
    [][\A id \in PluginIds :
        (EnableStep(id) /\ db[id].manifest.required \subseteq StoredGrants(db[id]))
        => LET key == <<id, db'[id].version>>
               hooks == db'[id].manifest.hooks
           IN /\ db'[id].status = "enabled"
              /\ db'[id].enabled
              /\ key \in DOMAIN plugins'
              /\ \A i \in DOMAIN hooks :
                    HookPermitted(hooks[i], StoredGrants(db'[id]))
                    => /\ hooks[i] \in DOMAIN hook_to_plugins'
                       /\ key \in Range(hook_to_plugins'[hooks[i]])]_vars

\* C10: disable cleanup.  After a disable of plugin P has returned
\* successfully, through disable_plugin or through update_plugin with
\* enabled = false, no bucket of the hook index holds a key of P, the plugins
\* map holds no LoadedPlugin of P, and the record is disabled.
C10_DisableCleanup ==
    (/\ last.ok
     /\ \/ last.op = "disable_plugin"
        \/ last.op = "update_plugin" /\ last.enabled_req = "false")
    => /\ ~Indexed(hook_to_plugins, last.id)
       /\ \A k \in DOMAIN plugins : k[1] # last.id
       /\ db[last.id].status = "disabled"
       /\ ~db[last.id].enabled

\* C11: after uninstall_plugin(plugin_id) has returned successfully, the store
\* holds no record of plugin_id, neither the plugins map nor a bucket of the
\* hook index holds a key of plugin_id, and no package of plugin_id is left
\* in the install directory.
C11_UninstallCleanup ==
    (last.op = "uninstall_plugin" /\ last.ok)
    => /\ last.id \notin DOMAIN db
       /\ \A k \in DOMAIN plugins : k[1] # last.id
       /\ ~Indexed(hook_to_plugins, last.id)
       /\ \A k \in DOMAIN rpk_files : k[1] # last.id

\* C12: hook index consistency.  A key is in the bucket of hook H iff the
\* plugins map holds a LoadedPlugin under that key whose registered_hooks
\* contain H, and no bucket is empty.
C12_HookIndexConsistency ==
    /\ \A h \in DOMAIN hook_to_plugins : hook_to_plugins[h] # << >>
    /\ \A h \in DOMAIN HookDefinitions, k \in Keys :
          (h \in DOMAIN hook_to_plugins /\ k \in Range(hook_to_plugins[h]))
          <=> (k \in DOMAIN plugins /\ h \in Range(plugins[k].registered_hooks))

\* the step is install_plugin returning Ok for a plugin id without a record
InstallStep(id) ==
    /\ id \notin DOMAIN db
    /\ last'.op = "install_plugin"
    /\ last'.id = id
    /\ last'.ok

\* C13: a successful install of an archive whose plugin id has no record
\* creates one record for it, disabled, with an empty granted set, stores the
\* package, and leaves every other record, the plugins map and the hook
\* index unchanged.
C13_InstallFrame ==
    [][\A id \in PluginIds :
        InstallStep(id)
        => /\ DOMAIN db' = DOMAIN db \cup {id}
           /\ \A other \in DOMAIN db : db'[other] = db[other]
           /\ db'[id].plugin_id = id
           /\ db'[id].status = "disabled"
           /\ ~db'[id].enabled
           /\ StoredGrants(db'[id]) = {}
           /\ <<id, db'[id].version>> \in DOMAIN rpk_files'
           /\ plugins' = plugins
           /\ hook_to_plugins' = hook_to_plugins]_vars

\* an install succeeded while another plugin was loaded and indexed
C13_Witness ==
    /\ last.op = "install_plugin"
    /\ last.ok
    /\ last.id \in DOMAIN db
    /\ db[last.id].status = "disabled"
    /\ \E k \in DOMAIN plugins : k[1] # last.id
    /\ hook_to_plugins # EmptyMap

\* C14: installing an archive whose plugin id already has a record, whatever
\* the record's status and version, fails and leaves the record, the stored
\* packages, the plugins map and the hook index as they were.
C14_AlreadyInstalled ==
    [][\A id \in PluginIds :
        (id \in DOMAIN db /\ last'.op = "install_plugin" /\ last'.id = id)
        => /\ ~last'.ok
           /\ db' = db
           /\ rpk_files' = rpk_files
           /\ plugins' = plugins
           /\ hook_to_plugins' = hook_to_plugins]_vars

\* an install of another version was refused while the plugin was enabled
\* and loaded
C14_Witness ==
    /\ last.op = "install_plugin"
    /\ ~last.ok
    /\ last.id \in DOMAIN db
    /\ db[last.id].version # last.version
    /\ db[last.id].status = "enabled"
    /\ <<last.id, db[last.id].version>> \in DOMAIN plugins
    /\ <<last.id, last.version>> \notin DOMAIN rpk_files

\* the step is review_plugin_permissions(id) returning 200
ReviewStep(id) ==
    /\ id \in DOMAIN db
    /\ last'.op = "review_plugin_permissions"
    /\ last'.id = id
    /\ last'.ok

Selected(record) == record.enabled /\ record.status = "enabled"

\* loading the record's package fails: it is not in the install directory
LoadFails(record) == <<record.plugin_id, record.version>> \notin DOMAIN rpk_files

\* C16: load_enabled_plugins returns Ok; every selected record whose load
\* fails ends disabled, out of the plugins map and of the hook index; every
\* other selected record keeps its status and ends loaded and indexed under
\* each of its hooks, wherever it stands among the failing ones.
C16_LoadEnabledPlugins ==
    [][last'.op = "load_enabled_plugins"
       => /\ last'.ok
          /\ \A id \in DOMAIN db :
                Selected(db[id])
                => LET key == <<id, db[id].version>>
                       hooks == db[id].manifest.hooks
                   IN IF LoadFails(db[id])
                      THEN /\ db'[id].status = "disabled"
                           /\ ~db'[id].enabled
                           /\ key \notin DOMAIN plugins'
                           /\ ~Indexed(hook_to_plugins', id)
                      ELSE /\ db'[id] = db[id]
                           /\ key \in DOMAIN plugins'
                           /\ \A i \in DOMAIN hooks :
                                 /\ hooks[i] \in DOMAIN hook_to_plugins'
                                 /\ key \in Range(hook_to_plugins'[hooks[i]])]_vars

\* load_enabled_plugins has returned with one record flipped to disabled for
\* want of its package and the two others loaded
C16_Witness ==
    /\ last.op = "load_enabled_plugins"
    /\ Cardinality(DOMAIN plugins) = 2
    /\ \E id \in DOMAIN db :
          /\ LoadFails(db[id])
          /\ db[id].status = "disabled"
          /\ \A k \in DOMAIN plugins : k[1] # id

\* C17: record invariant.  Every record of the store has enabled = true iff
\* its status is "enabled", and its status is "disabled", "pending_review"
\* or "enabled".
C17_RecordInvariant ==
    \A id \in DOMAIN db :
        /\ db[id].enabled <=> db[id].status = "enabled"
        /\ db[id].status \in RecordStatuses

\* a review has just enabled one record while another record, whose grant
\* was written by an earlier review or permission update (no stored input
\* grants "post:write"), stands disabled
C17_Witness ==
    /\ last.op = "review_plugin_permissions"
    /\ last.ok
    /\ last.id \in DOMAIN db
    /\ db[last.id].enabled
    /\ db[last.id].status = "enabled"
    /\ \E id \in DOMAIN db :
          /\ id # last.id
          /\ db[id].status = "disabled"
          /\ ~db[id].enabled
          /\ db[id].granted_permissions \in {Some(g) : g \in GrantSets \ {{}}}

\* C18: when install_rpk fails (manifest missing, expected id mismatch,
\* plugin.wasm missing), nothing is persisted: no record is created and no
\* file of that package is left in the install directory.
C18_FailedInstallPersistsNothing ==
    (fs.wr.op = "install_rpk" /\ ~fs.wr.ok)
    => /\ fs.wr.id \notin DOMAIN db
       /\ InstallDir \o <<fs.wr.id>> \notin fs.files
       /\ fs.wr.id \notin DOMAIN fs.archives

\* C19: when a manifest declares several hooks and some require a permission
\* the plugin was not granted, a successful load registers the plugin under
\* every permitted hook and under no violating hook.
C19_PartialHookDrop ==
    (last.op = "load_plugin_from_database" /\ last.ok)
    => LET key == <<last.id, db[last.id].version>>
           hooks == db[last.id].manifest.hooks
           granted == StoredGrants(db[last.id])
       IN /\ key \in DOMAIN plugins
          /\ \A i \in DOMAIN hooks :
                IF HookPermitted(hooks[i], granted)
                THEN /\ hooks[i] \in DOMAIN hook_to_plugins
                     /\ key \in Range(hook_to_plugins[hooks[i]])
                ELSE \/ hooks[i] \notin DOMAIN hook_to_plugins
                     \/ key \notin Range(hook_to_plugins[hooks[i]])

\* hook i of the validated list fails: it is not defined, or the permission
\* it requires is not granted
FailsValidation(i) ==
    \/ last.hooks[i] \notin DOMAIN HookDefinitions
    \/ /\ HookDefinitions[last.hooks[i]] # NoPerm
       /\ last.granted_permissions[HookDefinitions[last.hooks[i]]] # "true"

----------------------------------------------------------------------------
(* Properties of concurrent calls                                          *)

SnapshotKeys(d) == [j \in DOMAIN d.snapshot |-> Key(d.snapshot[j])]

InvokedOf(d) == [j \in DOMAIN d.invoked |-> d.invoked[j].key]

\* C21: a dispatch takes one snapshot of the plugin list of its hook at
\* entry and invokes exactly those plugins in that order; a registry call
\* that runs during the dispatch changes neither the dispatch (the
\* invocation in progress is not cancelled) nor the plugins it invokes.
C21_SnapshotAtEntry ==
    [][ /\ (dsp.pc = "idle" /\ dsp'.pc # "idle")
           => dsp'.snapshot = get_plugins_for_hook(World, dsp'.hook)
        /\ (dsp.pc # "idle" /\ dsp'.pc # "idle")
           => /\ dsp'.snapshot = dsp.snapshot
              /\ Len(dsp'.invoked) <= Len(dsp'.snapshot)
              /\ InvokedOf(dsp') = SubSeq(SnapshotKeys(dsp'), 1, Len(dsp'.invoked))
              /\ dsp'.pc \in {"inst", "done"}
                 => dsp'.instantiated = InvokedOf(dsp')
              /\ (dsp'.pc = "done" /\ dsp'.result.ok)
                 => InvokedOf(dsp') = SnapshotKeys(dsp')
        /\ (plugins' # plugins \/ hook_to_plugins' # hook_to_plugins \/ tasks' # tasks)
           => dsp' = dsp
      ]_vars

\* a dispatch returned Ok after invoking a plugin that was unregistered
\* while the dispatch ran
C21_Witness ==
    /\ dsp.pc = "done"
    /\ dsp.result.ok
    /\ Len(dsp.invoked) >= 1
    /\ \E j \in DOMAIN dsp.invoked : dsp.invoked[j].key \notin DOMAIN plugins

\* C22: every dispatch eventually returns, even if a plugin invocation never
\* completes: the invocation is bounded by a timeout, after which the
\* filter pipeline returns an error and the action pipeline goes on with
\* the remaining plugins.
C22_DispatchReturns ==
    (dsp.pc \in {"inst", "call"}) ~> (dsp.pc = "done")

\* C23: in the action pipeline a failure to instantiate a plugin
\* (get_bindings returns an error) is logged and swallowed: the loop still
\* goes over every plugin of the snapshot after it, and call_action_hook
\* returns Ok(()).
C23_ActionInstantiateSwallowed ==
    (dsp.pc = "done" /\ dsp.kind = "action")
    => /\ dsp.result.ok
       /\ dsp.i > Len(dsp.snapshot)

\* C24: when a store operation fails inside disable_plugin,
\* uninstall_plugin or install_plugin, the error is returned to the caller
\* and the plugins map and the hook index are the same as before the call.
C24_StoreFailureKeepsMemory ==
    [][ ( /\ "error" \in DOMAIN last'
          /\ last'.op \in {"disable_plugin", "uninstall_plugin", "install_plugin"} )
        => /\ ~last'.ok
           /\ plugins' = plugins
           /\ hook_to_plugins' = hook_to_plugins
      ]_vars

\* C25: the temporary extraction directory of load_plugin_from_rpk_data is
\* deleted on every exit path: after the call has returned, with a
\* LoadedPlugin or with any error, nothing of the directory is left.
C25_TempDirRemoved ==
    fs.wr.op = "load_plugin_from_rpk_data"
    => \A p \in fs.files : ~Within(p, ExtractDir)

\* C26: no bucket of the hook index holds the same (plugin_id, version) key
\* twice, after any sequence of loads, so no plugin is invoked more than
\* once per dispatch.
C26_NoDuplicateKey ==
    \A h \in DOMAIN hook_to_plugins :
        \A i, j \in DOMAIN hook_to_plugins[h] :
            i # j => hook_to_plugins[h][i] # hook_to_plugins[h][j]

\* some call in flight can take a step
SomeTaskRuns ==
    \E t \in DOMAIN tasks : tasks[t].pc = "hold" \/ CanAcquire(t)

\* C27: the two locks of the registry never deadlock.  With concurrent
\* register_plugin, unregister_plugin, unregister_plugin_with_version and
\* get_plugins_for_hook calls under a fair lock that serves waiters in
\* order, no state has every call blocked on a lock, and each call
\* eventually returns.
C27_NoDeadlock ==
    /\ [](DOMAIN tasks # {} => SomeTaskRuns)
    /\ \A t \in LockTasks : (t \in DOMAIN tasks) ~> (t \notin DOMAIN tasks)

\* a reader holds hook_to_plugins and waits for plugins, which a writer
\* holds, while another writer waits for hook_to_plugins
C27_Witness ==
    \E r, w, x \in DOMAIN tasks :
        /\ tasks[r].op = "get_plugins_for_hook"
        /\ tasks[r].stage = 2
        /\ tasks[r].pc = "wait"
        /\ tasks[w].pc = "hold"
        /\ LockOf(tasks[w]) = "plugins"
        /\ ModeOf(tasks[w]) = "w"
        /\ tasks[x].pc = "wait"
        /\ LockOf(tasks[x]) = "hook_to_plugins"
        /\ ModeOf(tasks[x]) = "w"

\* C28: for concurrent install calls whose archives carry the same
\* plugin_id, under every interleaving of their existence check, archive
\* write and insert, at most one call returns success and at most one
\* record of that plugin_id exists in the store.
C28_OneInstallWins ==
    \A id \in PluginIds :
        /\ Cardinality({t \in DOMAIN tasks :
                           tasks[t].manifest.id = id /\ tasks[t].ok}) <= 1
        /\ Cardinality({i \in DOMAIN db : db[i].plugin_id = id}) <= 1

\* two installs of one plugin_id both passed the existence check; one
\* inserted its row, the other was refused by the store
C28_Witness ==
    \E t, u \in DOMAIN tasks :
        /\ tasks[t].manifest.id = tasks[u].manifest.id
        /\ tasks[t].pc = "returned" /\ tasks[t].ok
        /\ tasks[u].pc = "returned" /\ tasks[u].error = "unique key"
        /\ tasks[t].manifest.version # tasks[u].manifest.version

\* what an invocation of the plugin is answered by the permissions view and
\* by the broker's capability checks
HostAnswers(plugin) ==
    [ai_helper \in BOOLEAN |->
        LET h == new_state(plugin, ai_helper) IN
        [list |-> list_permissions(h).ret,
         granted |-> {p \in HostPerms \cup {"post:write", "user:read"} :
                         permission_granted(h, p)},
         chat |-> chat_completion(h, TRUE).ret,
         models |-> list_models(h, TRUE).ret]]

\* C29: update_plugin_permissions changes only the stored granted set of
\* the record: the plugins map and the hook index are unchanged, and a
\* loaded plugin keeps the grants captured when it was loaded, so the
\* permissions view and the broker's checks answer its invocations as
\* before the update.
C29_UpdatePermissionsFrame ==
    [][ (last'.op = "update_plugin_permissions" /\ last'.ok)
        => /\ plugins' = plugins
           /\ hook_to_plugins' = hook_to_plugins
           /\ rpk_files' = rpk_files
           /\ DOMAIN db' = DOMAIN db
           /\ \A id \in DOMAIN db :
                 db'[id] = IF id = last'.id
                           THEN [db[id] EXCEPT !.granted_permissions =
                                                   db'[id].granted_permissions]
                           ELSE db[id]
           /\ \A k \in DOMAIN plugins : HostAnswers(plugins'[k]) = HostAnswers(plugins[k])
      ]_vars

\* the grants of a record were updated while its plugin is loaded, and the
\* loaded plugin's grants differ from the stored ones
C29_Witness ==
    /\ last.op = "update_plugin_permissions"
    /\ last.ok
    /\ \E k \in DOMAIN plugins :
          /\ k[1] = last.id
          /\ plugins[k].granted_permissions # StoredGrants(db[last.id])

\* C30: loads that overlap in time or fall in the same clock second do not
\* interfere through the extraction directory: a call of
\* load_plugin_from_rpk_data either fails or returns a LoadedPlugin whose
\* manifest (plugin_id, version, hooks) and bytecode come from its own
\* archive.
C30_LoadsDoNotInterfere ==
    \A t \in DOMAIN tasks :
        (tasks[t].pc = "returned" /\ tasks[t].ok)
        => /\ tasks[t].manifest_from = tasks[t].archive.id
           /\ tasks[t].wasm_from = tasks[t].archive.id

====
